---- MODULE Spec2Model ----
(***************************************************************************)
(* A model of the PDF viewer: the PDFViewer component with its controls    *)
(* and page navigator, the text-extraction pipeline (performOCR), and the  *)
(* recent-files cache kept in localStorage by the Index page and the       *)
(* PDFHistory component.                                                   *)
(*                                                                         *)
(* Lengths are in tenths of a CSS pixel and the zoom scale is in tenths    *)
(* (6, 8, 10 for 0.6, 0.8, 1.0), so that 842 * scale stays an integer.     *)
(***************************************************************************)
EXTENDS Integers, Sequences, FiniteSets, TLC

(***************************************************************************)
(* Bounds of the model.                                                    *)
(***************************************************************************)
\* the largest page count of a loaded document
MaxPages == 2
\* the largest digit typed into the jump-to-page field
MaxDigit == 3
\* the largest value Date.now() takes
MaxClock == 1

\* the longest chat transcript
MaxMessages == 5

\* the most handleSubmit calls of unmounted ChatBots running at a time
MaxOrphans == 1

\* the largest page count of a document scrolled through
MaxVirtualPages == 5

\* the most generateNotesFromText calls made
MaxNotesCalls == 2

(***************************************************************************)
(* Program constants.                                                      *)
(***************************************************************************)
\* estimateSize: () => 842 * scale; const pageHeight = 842 * scale
PageHeightPx == 842
\* if (pageText.trim().length < 50)
MinContent == 50
\* .slice(0, 3)
MaxHistory == 3
\* const MAX_STORAGE_SIZE = 4 * 1024 * 1024
MAX_STORAGE_SIZE == 4194304
\* if (width < 640) setScale(0.6)
SmallBreakpoint == 640
\* else if (width < 768) setScale(0.8)
MediumBreakpoint == 768

(***************************************************************************)
(* Strings.  A string is a sequence of runs [c |-> character, n |-> count] *)
(* in which no two adjacent runs have the same character and every count   *)
(* is positive; the text `Page <k>:` is the single token                   *)
(* [c |-> "Page:", n |-> k].  Page texts are over the letter "a", the      *)
(* space and the newline.                                                  *)
(***************************************************************************)
Run(ch, k) == [c |-> ch, n |-> k]

EmptyStr == << >>

Letters(k) == IF k = 0 THEN EmptyStr ELSE << Run("a", k) >>

Spaces(k) == IF k = 0 THEN EmptyStr ELSE << Run(" ", k) >>

Newlines(k) == IF k = 0 THEN EmptyStr ELSE << Run("\n", k) >>

\* the text of `Page ${pageNum}:`
PageHeader(pageNum) == << Run("Page:", pageNum) >>

IsHeader(r) == r.c = "Page:"

\* the characters String.prototype.trim removes
IsWhitespace(r) == r.c \in {" ", "\n"}

\* s + t
Concat(s, t) ==
  IF s = << >> THEN t
  ELSE IF t = << >> THEN s
  ELSE IF s[Len(s)].c = t[1].c /\ ~IsHeader(t[1])
       THEN SubSeq(s, 1, Len(s) - 1)
            \o << Run(t[1].c, s[Len(s)].n + t[1].n) >>
            \o SubSeq(t, 2, Len(t))
       ELSE s \o t

RECURSIVE StrLength(_)
\* s.length, for a string without `Page <k>:` tokens
StrLength(s) == IF s = << >> THEN 0 ELSE s[1].n + StrLength(Tail(s))

RECURSIVE TrimStart(_)
TrimStart(s) ==
  IF s = << >> THEN s
  ELSE IF IsWhitespace(s[1]) THEN TrimStart(Tail(s))
  ELSE s

RECURSIVE TrimEnd(_)
TrimEnd(s) ==
  IF s = << >> THEN s
  ELSE IF IsWhitespace(s[Len(s)]) THEN TrimEnd(SubSeq(s, 1, Len(s) - 1))
  ELSE s

\* s.trim()
Trim(s) == TrimEnd(TrimStart(s))

RECURSIVE JoinWithSpace(_)
\* items.join(' ')
JoinWithSpace(items) ==
  IF items = << >> THEN EmptyStr
  ELSE IF Len(items) = 1 THEN items[1]
  ELSE Concat(Concat(items[1], Spaces(1)), JoinWithSpace(Tail(items)))

(***************************************************************************)
(* parseInt and the number field.  The jump-to-page field is an            *)
(* <input type="number">: its value is the empty string or a decimal       *)
(* number.  A text is a sequence of one-character strings.                 *)
(***************************************************************************)
DigitChars == << "0", "1", "2", "3", "4", "5", "6", "7", "8", "9" >>

\* the digits that are typed: "0" .. MaxDigit
Digits == {DigitChars[i + 1] : i \in 0..MaxDigit}

DigitValue(ch) == CHOOSE i \in 0..9 : DigitChars[i + 1] = ch

\* the texts typed into the field: a digit, a digit with a sign, a digit
\* with a fraction
FieldValues ==
  {<< >>}
    \cup {<< d >> : d \in Digits}
    \cup {<< "-", d >> : d \in Digits}
    \cup {<< d, ".", "5" >> : d \in Digits}

RECURSIVE DigitPrefix(_)
\* the longest prefix of t made of digits
DigitPrefix(t) ==
  IF t = << >> \/ t[1] \notin {DigitChars[i] : i \in 1..10} THEN << >>
  ELSE << t[1] >> \o DigitPrefix(Tail(t))

RECURSIVE DecimalValue(_)
DecimalValue(ds) ==
  IF ds = << >> THEN 0
  ELSE 10 * DecimalValue(SubSeq(ds, 1, Len(ds) - 1)) + DigitValue(ds[Len(ds)])

NaN == [nan |-> TRUE, val |-> 0]

\* parseInt(t): an optional sign, then the longest run of digits; NaN when
\* there is no digit
ParseInt(t) ==
  LET neg  == t # << >> /\ t[1] = "-"
      rest == IF neg THEN Tail(t) ELSE t
      ds   == DigitPrefix(rest)
  IN  IF ds = << >> THEN NaN
      ELSE [nan |-> FALSE,
            val |-> IF neg THEN 0 - DecimalValue(ds) ELSE DecimalValue(ds)]

(***************************************************************************)
(* The state.                                                              *)
(***************************************************************************)
VARIABLES
  \* PDFViewer: the file prop and the component's state
  file, numPages, isLoading, currentPage, scale, splitPdfPages, isSplit,
  ocrText, showChat, isProcessingOCR,
  \* the argument of the last containerRef.current.scrollTo, NoScroll before
  \* any
  lastScroll,
  \* the message of the last toast shown, None before any
  lastToast,
  \* PDFControls
  startPage, endPage, showSplitControls,
  \* PDFPageNavigator
  isDialogOpen, jumpToPage,
  \* the running performOCR call: where it is ("idle" when none runs), its
  \* pageNumbers argument, the position of its loop, and its locals
  ocrPc, pageNumbers, ocrIndex, fullText, pageText, imageBasedPagesCount,
  \* the ids of the loading toasts on screen
  loadingToasts,
  \* the pages passed to Tesseract.recognize by the running call
  recognizeCalls,
  \* the pages for which canvas.getContext('2d') gave null in the running call
  noContextPages,
  \* localStorage, the FileReader of Index.handleFileSelect ("idle" or
  \* "reading" the file), and Date.now()
  storage, reader, now,
  \* ChatBot, mounted while showChat and ocrText is not empty: its state,
  \* whether VITE_API_KEY is configured, where its handleSubmit call is
  \* ("idle" when none runs), the response it has received, and the number
  \* of handleSubmit calls still running for ChatBot components that have
  \* been unmounted
  messages, input, isProcessing, apiKey, chatPc, response, orphans,
  \* generateNotesFromText: where the running call is ("idle" when none
  \* runs), its ocrText argument, and the outcomes of the calls made so far
  notesPc, notesArg, notesLog,
  \* the virtualizer of PDFViewer: the scroll offset and height of the
  \* container (tenths of a px) and the loadedPages state
  scrollOffset, outerSize, loadedPages

viewerVars ==
  << file, numPages, isLoading, currentPage, scale, splitPdfPages, isSplit,
     ocrText, showChat, isProcessingOCR, lastScroll >>

controlsVars == << startPage, endPage, showSplitControls >>

navigatorVars == << isDialogOpen, jumpToPage >>

ocrVars ==
  << ocrPc, pageNumbers, ocrIndex, fullText, pageText, imageBasedPagesCount,
     loadingToasts, recognizeCalls, noContextPages >>

cacheVars == << storage, reader, now >>

chatVars ==
  << messages, input, isProcessing, apiKey, chatPc, response, orphans >>

notesVars == << notesPc, notesArg, notesLog >>

virtualizerVars == << scrollOffset, outerSize, loadedPages >>

vars ==
  << viewerVars, lastToast, controlsVars, navigatorVars, ocrVars, cacheVars,
     chatVars, notesVars, virtualizerVars >>

None == "none"

NoScroll == [top |-> 0 - 1]

\* Array.from({ length: len }, (_, i) => first + i)
ArrayFrom(len, first) == [i \in 1..len |-> first + (i - 1)]

\* const pages = isSplit ? splitPdfPages : Array.from({ length: numPages }, ...)
pages == IF isSplit THEN splitPdfPages ELSE ArrayFrom(numPages, 1)

\* totalPages={isSplit ? splitPdfPages.length : numPages}
totalPages == IF isSplit THEN Len(splitPdfPages) ELSE numPages

\* the widths the window takes, around the two breakpoints
Widths ==
  {SmallBreakpoint - 1, SmallBreakpoint, MediumBreakpoint - 1, MediumBreakpoint}

\* updateScale, in tenths
ScaleForWidth(width) ==
  IF width < SmallBreakpoint THEN 6
  ELSE IF width < MediumBreakpoint THEN 8
  ELSE 10

\* estimateSize: () => 842 * scale
EstimateSize == PageHeightPx * scale

(***************************************************************************)
(* PDFViewer                                                               *)
(***************************************************************************)
\* the resize listener
UpdateScale ==
  /\ \E width \in Widths : scale' = ScaleForWidth(width)
  /\ UNCHANGED << file, numPages, isLoading, currentPage, splitPdfPages,
                  isSplit, ocrText, showChat, isProcessingOCR, lastScroll,
                  lastToast, controlsVars, navigatorVars, cacheVars, ocrVars >>
  /\ UNCHANGED << chatVars, notesVars, virtualizerVars >>

\* onDocumentLoadSuccess
OnDocumentLoadSuccess ==
  /\ isLoading
  /\ numPages' = Len(file.pages)
  /\ isLoading' = FALSE
  /\ lastToast' = "PDF loaded successfully"
  /\ UNCHANGED << file, currentPage, scale, splitPdfPages, isSplit, ocrText,
                  showChat, isProcessingOCR, lastScroll, controlsVars,
                  navigatorVars, cacheVars, ocrVars >>
  /\ UNCHANGED << chatVars, notesVars, virtualizerVars >>

\* handleSplit with the length of the range taken as end - start
ViewerHandleSplitShort(start, end) ==
  /\ splitPdfPages' = ArrayFrom(end - start, start)
  /\ isSplit' = TRUE
  /\ currentPage' = start
  /\ lastToast' = "PDF split"

\* PDFViewer.handleSplit(start, end)
ViewerHandleSplit(start, end) ==
  /\ splitPdfPages' = ArrayFrom(end - start + 1, start)
  /\ isSplit' = TRUE
  /\ currentPage' = start
  /\ lastToast' = "PDF split"

\* the target of a jump taken in the document, whatever the split
JumpTargetPageUnsplit(pageNum) == pageNum

\* the page PDFViewer.handleJumpToPage makes current; splitPdfPages[pageNum - 1]
\* of the 0-based array is splitPdfPages[pageNum] here
JumpTargetPage(pageNum) == IF isSplit THEN splitPdfPages[pageNum] ELSE pageNum

\* the offset PDFViewer.handleJumpToPage scrolls to
JumpScrollPosition(pageNum) ==
  (JumpTargetPage(pageNum) - 1) * (PageHeightPx * scale)

\* PDFViewer.handleJumpToPage(pageNum)
ViewerHandleJumpToPage(pageNum) ==
  /\ lastScroll' = [top |-> JumpScrollPosition(pageNum)]
  /\ currentPage' = JumpTargetPage(pageNum)

(***************************************************************************)
(* PDFControls                                                             *)
(***************************************************************************)
\* the numbers typed into the Start and End fields
PageInputs == 0..(Len(file.pages) + 1)

\* the Split PDF button
ToggleSplitControls ==
  /\ ~((isLoading \/ isProcessingOCR) \/ numPages = 0)
  /\ showSplitControls' = ~showSplitControls
  /\ UNCHANGED << viewerVars, lastToast, startPage, endPage, navigatorVars, cacheVars,
                  ocrVars >>
  /\ UNCHANGED << chatVars, notesVars, virtualizerVars >>

SetStartPage ==
  /\ showSplitControls
  /\ \E v \in PageInputs : startPage' = v
  /\ UNCHANGED << viewerVars, lastToast, endPage, showSplitControls,
                  navigatorVars, cacheVars, ocrVars >>
  /\ UNCHANGED << chatVars, notesVars, virtualizerVars >>

SetEndPage ==
  /\ showSplitControls
  /\ \E v \in PageInputs : endPage' = v
  /\ UNCHANGED << viewerVars, lastToast, startPage, showSplitControls,
                  navigatorVars, cacheVars, ocrVars >>
  /\ UNCHANGED << chatVars, notesVars, virtualizerVars >>

\* the guard without its upper bound
SplitAcceptedNoUpper(start, end) == start <= end /\ start >= 1

\* if (startPage <= endPage && startPage >= 1 && endPage <= numPages)
SplitAccepted(start, end) == start <= end /\ start >= 1 /\ end <= numPages

\* a split that cancels the extract run in flight
ApplySplitCancellingRun(start, end) ==
  /\ showSplitControls
  /\ IF SplitAccepted(start, end)
     THEN /\ ViewerHandleSplit(start, end)
          /\ showSplitControls' = FALSE
          /\ isProcessingOCR' = FALSE
          /\ ocrPc' = "idle"
          /\ pageNumbers' = << >>
          /\ ocrIndex' = 0
          /\ fullText' = EmptyStr
          /\ pageText' = EmptyStr
          /\ imageBasedPagesCount' = 0
          /\ recognizeCalls' = << >>
          /\ noContextPages' = {}
          /\ loadingToasts' = {}
          /\ UNCHANGED << file, numPages, isLoading, scale, ocrText, showChat,
                          lastScroll, navigatorVars, cacheVars >>
     ELSE UNCHANGED << viewerVars, lastToast, showSplitControls,
                       navigatorVars, cacheVars, ocrVars >>
  /\ UNCHANGED << chatVars, notesVars, virtualizerVars >>

\* a split that drops the extracted text and closes the chat panel
ApplySplitDroppingText(start, end) ==
  /\ showSplitControls
  /\ IF SplitAccepted(start, end)
     THEN /\ ViewerHandleSplit(start, end)
          /\ showSplitControls' = FALSE
          /\ ocrText' = EmptyStr
          /\ showChat' = FALSE
          /\ UNCHANGED << file, numPages, isLoading, scale,
                          isProcessingOCR, lastScroll, navigatorVars, cacheVars, ocrVars >>
     ELSE UNCHANGED << viewerVars, lastToast, showSplitControls,
                       navigatorVars, cacheVars, ocrVars >>
  /\ UNCHANGED << chatVars, notesVars, virtualizerVars >>

\* PDFControls.handleSplit with start and end in the fields
ApplySplit(start, end) ==
  /\ showSplitControls
  /\ IF SplitAccepted(start, end)
     THEN /\ ViewerHandleSplit(start, end)
          /\ showSplitControls' = FALSE
          /\ UNCHANGED << file, numPages, isLoading, scale, ocrText, showChat,
                          isProcessingOCR, lastScroll, navigatorVars, cacheVars, ocrVars >>
     ELSE UNCHANGED << viewerVars, lastToast, showSplitControls,
                       navigatorVars, cacheVars, ocrVars >>
  /\ UNCHANGED << chatVars, notesVars, virtualizerVars >>

\* PDFControls.handleSplit, the Apply button
ControlsHandleSplit ==
  /\ ApplySplit(startPage, endPage)
  /\ UNCHANGED << startPage, endPage >>

\* a range of pages of the document is typed into the two fields and
\* applied: setStartPage, setEndPage and handleSplit in a row
TypeRangeAndApply ==
  \E start \in 1..Len(file.pages) :
    \E end \in start..Len(file.pages) :
      /\ startPage' = start
      /\ endPage' = end
      /\ ApplySplit(start, end)

(***************************************************************************)
(* PDFPageNavigator, rendered when numPages > 0                            *)
(***************************************************************************)
\* onOpenChange of the dialog
SetIsDialogOpen ==
  /\ numPages > 0
  /\ isDialogOpen' = ~isDialogOpen
  /\ UNCHANGED << viewerVars, lastToast, controlsVars, jumpToPage, ocrVars,
                  cacheVars >>
  /\ UNCHANGED << chatVars, notesVars, virtualizerVars >>

\* onChange of the page-number field
SetJumpToPage ==
  /\ numPages > 0
  /\ isDialogOpen
  /\ \E t \in FieldValues : jumpToPage' = t
  /\ UNCHANGED << viewerVars, lastToast, controlsVars, isDialogOpen, ocrVars,
                  cacheVars >>
  /\ UNCHANGED << chatVars, notesVars, virtualizerVars >>

\* the guard without its upper limit
JumpRejectedNoUpper(pageNum) == pageNum.nan \/ pageNum.val < 1

\* if (isNaN(pageNum) || pageNum < 1 || pageNum > totalPages)
JumpRejected(pageNum) ==
  pageNum.nan \/ pageNum.val < 1 \/ pageNum.val > totalPages

\* PDFPageNavigator.handleJumpToPage, the Jump button
NavigatorHandleJumpToPage ==
  /\ numPages > 0
  /\ isDialogOpen
  /\ LET pageNum == ParseInt(jumpToPage)
     IN  IF JumpRejected(pageNum)
         THEN /\ lastToast' = "Please enter a valid page number"
              /\ UNCHANGED << viewerVars, controlsVars, navigatorVars,
                              cacheVars, ocrVars >>
         ELSE /\ ViewerHandleJumpToPage(pageNum.val)
              /\ isDialogOpen' = FALSE
              /\ jumpToPage' = << >>
              /\ lastToast' = "Jumped to page"
              /\ UNCHANGED << file, numPages, isLoading, scale, splitPdfPages,
                              isSplit, ocrText, showChat, isProcessingOCR,
                              controlsVars, ocrVars, cacheVars >>
  /\ UNCHANGED << chatVars, notesVars, virtualizerVars >>

(***************************************************************************)
(* Documents.  A page of a file is the list of the strings of its text     *)
(* items (textContent.items[i].str) and the text the recognition engine    *)
(* reads off its bitmap.                                                   *)
(***************************************************************************)
\* a page with MinContent letters of embedded text in one item
TextPage == [items |-> << Letters(MinContent) >>, scan |-> EmptyStr]

\* a page whose two items join to exactly MinContent characters
JoinedPage ==
  [items |-> << Letters(MinContent - 2), Letters(1) >>, scan |-> EmptyStr]

\* a page with MinContent - 1 letters followed by white space, and a scan
ShortPage ==
  [items |-> << Letters(MinContent - 1), Spaces(1) >>,
   scan  |-> Concat(Letters(2), Newlines(1))]

\* a page without embedded text, whose scan is empty
BlankPage == [items |-> << >>, scan |-> EmptyStr]

PageKinds == {JoinedPage, ShortPage, BlankPage}

\* the files of 1 .. MaxPages text pages
TextFiles ==
  {[name |-> "a", size |-> 1, pages |-> [i \in 1..n |-> TextPage]] :
     n \in 1..MaxPages}

\* the files of 1 .. MaxVirtualPages text pages
VirtualFiles ==
  {[name |-> "a", size |-> 1, pages |-> [i \in 1..n |-> TextPage]] :
     n \in 1..MaxVirtualPages}

\* the files of 1 .. MaxPages pages of every kind
MixedFiles ==
  {[name |-> "a", size |-> 1, pages |-> ps] :
     ps \in UNION {[1..n -> PageKinds] : n \in 1..MaxPages}}

(***************************************************************************)
(* performOCR and PDFViewer.handlePerformOCR.  The call is suspended at    *)
(* its awaits: "loading" (import and getDocument), "text" (getPage and     *)
(* getTextContent of the next page), "render" (extractImagesFromPage) and  *)
(* "recognize" (Tesseract.recognize).                                      *)
(***************************************************************************)
ExtractingToast == << "extracting", 0 >>

\* id: `ocr-page-${pageNum}`
PageToast(pageNum) == << "ocr-page", pageNum >>

NoTextFound == << Run("No text found in the PDF.", 1) >>

\* textContent.items.map(item => item.str).join(' ')
NativeText(pageNum) == JoinWithSpace(file.pages[pageNum].items)

\* the threshold applied to the text as extracted, white space included
IsImageBasedUntrimmed(text) == StrLength(text) < MinContent

\* the threshold with <= for <
IsImageBasedInclusive(text) == StrLength(Trim(text)) <= MinContent

\* if (pageText.trim().length < 50)
IsImageBased(text) == StrLength(Trim(text)) < MinContent

\* the page put in front of the text instead of at its end
AppendPageInFront(text, pageNum, pText) ==
  Concat(Concat(Concat(Concat(PageHeader(pageNum), Newlines(1)), Trim(pText)),
                Newlines(2)),
         text)

\* fullText += `Page ${pageNum}:\n${pageText.trim()}\n\n`
AppendPage(text, pageNum, pText) ==
  Concat(Concat(Concat(Concat(text, PageHeader(pageNum)), Newlines(1)),
                Trim(pText)),
         Newlines(2))

\* the button shown and the run started whether or not a split is active
HandlePerformOCRUngated ==
  /\ ~(isLoading \/ isProcessingOCR)
  /\ isProcessingOCR' = TRUE
  /\ loadingToasts' = loadingToasts \cup {ExtractingToast}
  /\ ocrPc' = "loading"
  /\ pageNumbers' = splitPdfPages
  /\ ocrIndex' = 0
  /\ fullText' = EmptyStr
  /\ pageText' = EmptyStr
  /\ imageBasedPagesCount' = 0
  /\ recognizeCalls' = << >>
  /\ noContextPages' = {}
  /\ UNCHANGED << file, numPages, isLoading, currentPage, scale,
                  splitPdfPages, isSplit, ocrText, showChat, lastScroll,
                  lastToast, controlsVars, navigatorVars, cacheVars >>
  /\ UNCHANGED << chatVars, notesVars, virtualizerVars >>

\* the Extract Text (OCR) button, shown when isSplit and enabled when not
\* isLoading
HandlePerformOCR ==
  /\ isSplit
  /\ ~(isLoading \/ isProcessingOCR)
  /\ IF ~isSplit \/ Len(splitPdfPages) = 0
     THEN /\ lastToast' = "Please split the PDF first before performing OCR"
          /\ UNCHANGED << viewerVars, controlsVars, navigatorVars, cacheVars, ocrVars >>
     ELSE /\ isProcessingOCR' = TRUE
          /\ loadingToasts' = loadingToasts \cup {ExtractingToast}
          /\ ocrPc' = "loading"
          /\ pageNumbers' = splitPdfPages
          /\ ocrIndex' = 0
          /\ fullText' = EmptyStr
          /\ pageText' = EmptyStr
          /\ imageBasedPagesCount' = 0
          /\ recognizeCalls' = << >>
          /\ noContextPages' = {}
          /\ UNCHANGED << file, numPages, isLoading, currentPage, scale,
                          splitPdfPages, isSplit, ocrText, showChat,
                          lastScroll, lastToast, controlsVars, navigatorVars, cacheVars >>
  /\ UNCHANGED << chatVars, notesVars, virtualizerVars >>

\* the document is loaded; the loop starts
OcrGetDocument ==
  /\ ocrPc = "loading"
  /\ ocrPc' = "text"
  /\ ocrIndex' = 1
  /\ UNCHANGED << viewerVars, lastToast, controlsVars, navigatorVars, cacheVars,
                  pageNumbers, fullText, pageText, imageBasedPagesCount,
                  loadingToasts, recognizeCalls, noContextPages >>
  /\ UNCHANGED << chatVars, notesVars, virtualizerVars >>

\* one iteration of the loop up to extractImagesFromPage
OcrGetTextContent ==
  /\ ocrPc = "text"
  /\ ocrIndex <= Len(pageNumbers)
  /\ LET pageNum == pageNumbers[ocrIndex]
     IN  IF pageNum > Len(file.pages) \/ pageNum < 1
         THEN /\ ocrIndex' = ocrIndex + 1
              /\ UNCHANGED << ocrPc, fullText, pageText, imageBasedPagesCount,
                              loadingToasts >>
         ELSE IF IsImageBased(NativeText(pageNum))
         THEN /\ pageText' = NativeText(pageNum)
              /\ loadingToasts' = loadingToasts \cup {PageToast(pageNum)}
              /\ imageBasedPagesCount' = imageBasedPagesCount + 1
              /\ ocrPc' = "render"
              /\ UNCHANGED << ocrIndex, fullText >>
         ELSE /\ pageText' = NativeText(pageNum)
              /\ fullText' = AppendPage(fullText, pageNum, NativeText(pageNum))
              /\ ocrIndex' = ocrIndex + 1
              /\ UNCHANGED << ocrPc, imageBasedPagesCount, loadingToasts >>
  /\ UNCHANGED << viewerVars, lastToast, controlsVars, navigatorVars, cacheVars,
                  pageNumbers, recognizeCalls, noContextPages >>
  /\ UNCHANGED << chatVars, notesVars, virtualizerVars >>

\* extractImagesFromPage returns: no image when the canvas gives no 2d
\* context, and then the loop over the images is empty
OcrExtractImages ==
  /\ ocrPc = "render"
  /\ \E ctx \in BOOLEAN :
       IF ~ctx
       THEN /\ noContextPages' = noContextPages \cup {pageNumbers[ocrIndex]}
            /\ loadingToasts' =
                 loadingToasts \ {PageToast(pageNumbers[ocrIndex])}
            /\ fullText' =
                 AppendPage(fullText, pageNumbers[ocrIndex], pageText)
            /\ ocrIndex' = ocrIndex + 1
            /\ ocrPc' = "text"
       ELSE /\ ocrPc' = "recognize"
            /\ UNCHANGED << ocrIndex, fullText, loadingToasts,
                            noContextPages >>
  /\ UNCHANGED << viewerVars, lastToast, controlsVars, navigatorVars, cacheVars,
                  pageNumbers, pageText, imageBasedPagesCount,
                  recognizeCalls >>
  /\ UNCHANGED << chatVars, notesVars, virtualizerVars >>

\* the recognized text put in the place of the native text
OcrRecognizeReplacing ==
  /\ ocrPc = "recognize"
  /\ LET pageNum == pageNumbers[ocrIndex]
         result  == file.pages[pageNum].scan
         pText   == result
     IN  /\ recognizeCalls' = Append(recognizeCalls, pageNum)
         /\ pageText' = pText
         /\ loadingToasts' = loadingToasts \ {PageToast(pageNum)}
         /\ fullText' = AppendPage(fullText, pageNum, pText)
  /\ ocrIndex' = ocrIndex + 1
  /\ ocrPc' = "text"
  /\ UNCHANGED << viewerVars, lastToast, controlsVars, navigatorVars, cacheVars,
                  pageNumbers, imageBasedPagesCount, noContextPages >>
  /\ UNCHANGED << chatVars, notesVars, virtualizerVars >>

\* Tesseract.recognize returns the text of the page image
OcrRecognize ==
  /\ ocrPc = "recognize"
  /\ LET pageNum == pageNumbers[ocrIndex]
         result  == file.pages[pageNum].scan
         pText   == Concat(Concat(pageText, Spaces(1)), result)
     IN  /\ recognizeCalls' = Append(recognizeCalls, pageNum)
         /\ pageText' = pText
         /\ loadingToasts' = loadingToasts \ {PageToast(pageNum)}
         /\ fullText' = AppendPage(fullText, pageNum, pText)
  /\ ocrIndex' = ocrIndex + 1
  /\ ocrPc' = "text"
  /\ UNCHANGED << viewerVars, lastToast, controlsVars, navigatorVars, cacheVars,
                  pageNumbers, imageBasedPagesCount, noContextPages >>
  /\ UNCHANGED << chatVars, notesVars, virtualizerVars >>

\* the call is over and its argument and locals are gone
OcrLocalsGone ==
  /\ pageNumbers' = << >>
  /\ ocrIndex' = 0
  /\ fullText' = EmptyStr
  /\ pageText' = EmptyStr
  /\ imageBasedPagesCount' = 0
  /\ recognizeCalls' = << >>
  /\ noContextPages' = {}

\* the text performOCR returns: fullText || "No text found in the PDF."
OcrResultText == IF fullText = EmptyStr THEN NoTextFound ELSE fullText

\* the loop is over: performOCR returns and handlePerformOCR goes on
OcrReturn ==
  /\ ocrPc = "text"
  /\ ocrIndex > Len(pageNumbers)
  /\ ocrText' = OcrResultText
  /\ showChat' = TRUE
  /\ loadingToasts' = loadingToasts \ {ExtractingToast}
  /\ lastToast' = "OCR completed"
  /\ isProcessingOCR' = FALSE
  /\ ocrPc' = "idle"
  /\ OcrLocalsGone
  /\ UNCHANGED << file, numPages, isLoading, currentPage, scale,
                  splitPdfPages, isSplit, lastScroll, controlsVars,
                  navigatorVars, cacheVars >>
  /\ UNCHANGED << chatVars, notesVars, virtualizerVars >>

\* the failure handled by storing the text of the pages processed so far
OcrThrowKeepingPartial ==
  /\ \/ ocrPc \in {"loading", "render", "recognize"}
     \/ ocrPc = "text" /\ ocrIndex <= Len(pageNumbers)
  /\ ocrText' = OcrResultText
  /\ loadingToasts' = loadingToasts \ {ExtractingToast}
  /\ lastToast' = "Failed to extract text from PDF. Please try again."
  /\ isProcessingOCR' = FALSE
  /\ ocrPc' = "idle"
  /\ OcrLocalsGone
  /\ UNCHANGED << file, numPages, isLoading, currentPage, scale,
                  splitPdfPages, isSplit, showChat, lastScroll,
                  controlsVars, navigatorVars, cacheVars >>
  /\ UNCHANGED << chatVars, notesVars, virtualizerVars >>

\* the failure handled without the finally block
OcrThrowKeepingBusy ==
  /\ \/ ocrPc \in {"loading", "render", "recognize"}
     \/ ocrPc = "text" /\ ocrIndex <= Len(pageNumbers)
  /\ loadingToasts' = loadingToasts \ {ExtractingToast}
  /\ lastToast' = "Failed to extract text from PDF. Please try again."
  /\ UNCHANGED isProcessingOCR
  /\ ocrPc' = "idle"
  /\ OcrLocalsGone
  /\ UNCHANGED << file, numPages, isLoading, currentPage, scale,
                  splitPdfPages, isSplit, ocrText, showChat, lastScroll,
                  controlsVars, navigatorVars, cacheVars >>
  /\ UNCHANGED << chatVars, notesVars, virtualizerVars >>

\* an awaited call rejects: performOCR rethrows and handlePerformOCR
\* reports the failure
OcrThrow ==
  /\ \/ ocrPc \in {"loading", "render", "recognize"}
     \/ ocrPc = "text" /\ ocrIndex <= Len(pageNumbers)
  /\ loadingToasts' = loadingToasts \ {ExtractingToast}
  /\ lastToast' = "Failed to extract text from PDF. Please try again."
  /\ isProcessingOCR' = FALSE
  /\ ocrPc' = "idle"
  /\ OcrLocalsGone
  /\ UNCHANGED << file, numPages, isLoading, currentPage, scale,
                  splitPdfPages, isSplit, ocrText, showChat, lastScroll,
                  controlsVars, navigatorVars, cacheVars >>
  /\ UNCHANGED << chatVars, notesVars, virtualizerVars >>

(***************************************************************************)
(* ChatBot.  The texts of messages, of response bodies and of errors are   *)
(* strings whose runs are words: Word("429") stands for a piece of text    *)
(* that contains 429.  The handleSubmit call is suspended at its awaits:   *)
(* "fetching" (fetch) and "reading" (response.text or response.json).      *)
(* When the ChatBot is unmounted its state is gone, and the next mount     *)
(* starts from the initial state: the variables hold the initial state     *)
(* while no ChatBot is mounted.                                            *)
(***************************************************************************)
Word(w) == << Run(w, 1) >>

\* s.includes(w)
Includes(s, w) == \E i \in 1..Len(s) : s[i].c = w

Greeting == Word("Hello! I can answer questions about the PDF content.")

Thinking == Word("Thinking...")

Message(role, content) == [role |-> role, content |-> content]

\* useState<Message[]>([...])
InitialMessages == << Message("assistant", Greeting) >>

\* the ChatBot is rendered
ChatMounted == showChat /\ ocrText # EmptyStr

\* the texts typed into the question field
ChatInputs ==
  {EmptyStr, Spaces(1), Concat(Spaces(1), Letters(2)),
   Concat(Thinking, Spaces(1))}

\* [m, ...prev]
PrependMessage(prev, m) == << m >> \o prev

\* [...prev, m]
AppendMessage(prev, m) == Append(prev, m)

\* prev.filter(m => m.content !== "Thinking...")
RECURSIVE WithoutThinking(_)
WithoutThinking(prev) ==
  IF prev = << >> THEN << >>
  ELSE IF prev[1].content # Thinking
       THEN << prev[1] >> \o WithoutThinking(Tail(prev))
       ELSE WithoutThinking(Tail(prev))

\* a response body: "text" is not JSON, "null" is the JSON null, "object"
\* is a JSON object with error.message, message and
\* choices[0].message.content, each EmptyStr when missing or empty, and
\* hasMessage telling whether choices[0].message is there
Body(kind, text, errorMessage, message, hasMessage, content) ==
  [kind |-> kind, text |-> text, errorMessage |-> errorMessage,
   message |-> message, hasMessage |-> hasMessage, content |-> content]

TextBody(text) == Body("text", text, EmptyStr, EmptyStr, FALSE, EmptyStr)

NullBody == Body("null", Word("null"), EmptyStr, EmptyStr, FALSE, EmptyStr)

ErrorBody(errorMessage, message) ==
  Body("object", EmptyStr, errorMessage, message, FALSE, EmptyStr)

CompletionBody(content) ==
  Body("object", EmptyStr, EmptyStr, EmptyStr, TRUE, content)

\* the bodies sent with a status that is not ok
ErrorBodies ==
  {TextBody(Word("busy")), TextBody(Word("401")), NullBody,
   ErrorBody(Word("Rate limit exceeded"), EmptyStr),
   ErrorBody(EmptyStr, Word("429")),
   ErrorBody(EmptyStr, EmptyStr)}

\* the bodies sent with status 200
OkBodies ==
  {TextBody(Word("busy")), NullBody, ErrorBody(EmptyStr, EmptyStr),
   CompletionBody(EmptyStr), CompletionBody(Spaces(1)),
   CompletionBody(Word("answer")), CompletionBody(Thinking)}

OkStatus == "200"

ErrorStatuses == {"401", "429", "500"}

Responses ==
  {[status |-> OkStatus, body |-> b] : b \in OkBodies}
    \cup {[status |-> st, body |-> b] : st \in ErrorStatuses,
                                         b \in ErrorBodies}

NoResponse == [status |-> "none", body |-> TextBody(EmptyStr)]

\* the messages of the errors with which fetch rejects
FetchErrors == {Word("Failed to fetch"), Word("NetworkError"),
                Word("Load failed")}

\* a || b for strings
OrElse(a, b) == IF a # EmptyStr THEN a ELSE b

\* the message of the error thrown for a response that is not ok
NotOkErrorMessage(r) ==
  IF r.body.kind = "object"
  THEN OrElse(r.body.errorMessage,
              OrElse(r.body.message, Word("Failed to get response from AI")))
  \* JSON.parse throws, or errorData is null: the inner catch
  ELSE Concat(Concat(Concat(Word("HTTP "), Word(r.status)), Word(": ")),
              r.body.text)

NetworkErrorMessage == Word("Network error.")

AuthenticationErrorMessage == Word("Authentication error.")

RateLimitText == "Rate limit exceeded. Please wait a moment and try again."

RateLimitMessage == Word(RateLimitText)

ModelUnavailableMessage == Word("The AI model is not available.")

\* errorMessage of the catch block, for an Error with message msg
ErrorMessageFor(msg) ==
  IF Includes(msg, "Failed to fetch") \/ Includes(msg, "NetworkError")
  THEN NetworkErrorMessage
  ELSE IF Includes(msg, "401") THEN AuthenticationErrorMessage
  ELSE IF Includes(msg, "429") THEN RateLimitMessage
  ELSE IF Includes(msg, "404") THEN ModelUnavailableMessage
  ELSE Concat(Word("Error: "), msg)

\* `${errorMessage} Please try again or rephrase your question.`
ErrorContent(msg) ==
  Concat(ErrorMessageFor(msg),
         Word(" Please try again or rephrase your question."))

\* onChange of the question field, disabled while isProcessing
SetInput ==
  /\ ChatMounted
  /\ ~isProcessing
  /\ \E t \in ChatInputs : input' = t
  /\ UNCHANGED << messages, isProcessing, apiKey, chatPc, response, orphans >>
  /\ UNCHANGED << viewerVars, lastToast, controlsVars, navigatorVars, ocrVars,
                  cacheVars, notesVars, virtualizerVars >>

\* handleSubmit with the question tested without trim()
ChatHandleSubmitUntrimmed ==
  /\ ChatMounted
  /\ input # EmptyStr
  /\ ~isProcessing
  /\ IF ~apiKey
     THEN /\ lastToast' = "API key not configured"
          /\ UNCHANGED << messages, input, isProcessing, chatPc >>
     ELSE /\ Len(messages) + 2 <= MaxMessages
          /\ messages' =
               AppendMessage(AppendMessage(messages,
                                           Message("user", Trim(input))),
                             Message("assistant", Thinking))
          /\ input' = EmptyStr
          /\ isProcessing' = TRUE
          /\ chatPc' = "fetching"
          /\ lastToast' = "Processing your question..."
  /\ UNCHANGED << apiKey, response, orphans >>
  /\ UNCHANGED << viewerVars, controlsVars, navigatorVars, ocrVars, cacheVars,
                  notesVars, virtualizerVars >>

\* ChatBot.handleSubmit up to its await of fetch
ChatHandleSubmit ==
  /\ ChatMounted
  /\ Trim(input) # EmptyStr
  /\ ~isProcessing
  /\ IF ~apiKey
     THEN /\ lastToast' = "API key not configured"
          /\ UNCHANGED << messages, input, isProcessing, chatPc >>
     ELSE /\ Len(messages) + 2 <= MaxMessages
          /\ messages' =
               AppendMessage(AppendMessage(messages,
                                           Message("user", Trim(input))),
                             Message("assistant", Thinking))
          /\ input' = EmptyStr
          /\ isProcessing' = TRUE
          /\ chatPc' = "fetching"
          /\ lastToast' = "Processing your question..."
  /\ UNCHANGED << apiKey, response, orphans >>
  /\ UNCHANGED << viewerVars, controlsVars, navigatorVars, ocrVars, cacheVars,
                  notesVars, virtualizerVars >>

\* the catch and finally blocks of handleSubmit, for an Error with message
\* msg
ChatCatch(msg) ==
  /\ messages' =
       AppendMessage(WithoutThinking(messages),
                     Message("assistant", ErrorContent(msg)))
  /\ lastToast' = "Failed to generate response"
  /\ isProcessing' = FALSE
  /\ chatPc' = "idle"
  /\ response' = NoResponse

\* fetch settles: it rejects, or it resolves with a response and the
\* thinking message is removed
ChatFetchSettles ==
  /\ chatPc = "fetching"
  /\ \/ \E msg \in FetchErrors : ChatCatch(msg)
     \/ \E r \in Responses :
          /\ messages' = WithoutThinking(messages)
          /\ response' = r
          /\ chatPc' = "reading"
          /\ UNCHANGED << isProcessing, lastToast >>
  /\ UNCHANGED << input, apiKey, orphans >>
  /\ UNCHANGED << viewerVars, controlsVars, navigatorVars, ocrVars, cacheVars,
                  notesVars, virtualizerVars >>

\* the message of the error thrown while the body of an ok response is
\* read, EmptyStr when none is thrown
OkErrorMessage(r) ==
  IF r.body.kind = "text" THEN Word("Unexpected token")
  ELSE IF r.body.kind = "null" THEN Word("Cannot read properties of null")
  ELSE IF ~r.body.hasMessage THEN Word("Invalid response format from API")
  ELSE IF Trim(r.body.content) = EmptyStr THEN Word("Empty response from AI")
  ELSE EmptyStr

\* the body has been read: handleSubmit runs to its end
ChatReadBody ==
  /\ chatPc = "reading"
  /\ IF response.status # OkStatus
     THEN ChatCatch(NotOkErrorMessage(response))
     ELSE IF OkErrorMessage(response) # EmptyStr
     THEN ChatCatch(OkErrorMessage(response))
     ELSE /\ messages' =
               AppendMessage(messages,
                             Message("assistant", response.body.content))
          /\ lastToast' = "Response generated successfully!"
          /\ isProcessing' = FALSE
          /\ chatPc' = "idle"
          /\ response' = NoResponse
  /\ UNCHANGED << input, apiKey, orphans >>
  /\ UNCHANGED << viewerVars, controlsVars, navigatorVars, ocrVars, cacheVars,
                  notesVars, virtualizerVars >>

\* the ChatBot is unmounted: its state is gone, a handleSubmit call that is
\* suspended goes on without it
UnmountChatBot ==
  /\ chatPc = "idle" \/ orphans < MaxOrphans
  /\ messages' = InitialMessages
  /\ input' = EmptyStr
  /\ isProcessing' = FALSE
  /\ chatPc' = "idle"
  /\ response' = NoResponse
  /\ orphans' = IF chatPc = "idle" THEN orphans ELSE orphans + 1
  /\ UNCHANGED apiKey

\* a handleSubmit call of an unmounted ChatBot runs to its end: its
\* setMessages and setIsProcessing do nothing, its toasts are shown
OrphanSettles ==
  /\ orphans > 0
  /\ orphans' = orphans - 1
  /\ \E t \in {"Response generated successfully!",
               "Failed to generate response"} : lastToast' = t
  /\ UNCHANGED << messages, input, isProcessing, apiKey, chatPc, response >>
  /\ UNCHANGED << viewerVars, controlsVars, navigatorVars, ocrVars, cacheVars,
                  notesVars, virtualizerVars >>

\* onClose of the ChatBot: setShowChat(false)
ChatClose ==
  /\ ChatMounted
  /\ showChat' = FALSE
  /\ UnmountChatBot
  /\ UNCHANGED << file, numPages, isLoading, currentPage, scale,
                  splitPdfPages, isSplit, ocrText, isProcessingOCR,
                  lastScroll, lastToast, controlsVars, navigatorVars, cacheVars,
                  ocrVars, notesVars, virtualizerVars >>

\* the Ask Questions button, shown when ocrText is not empty:
\* setShowChat(!showChat)
ToggleChat ==
  /\ ocrText # EmptyStr
  /\ showChat' = ~showChat
  /\ IF showChat THEN UnmountChatBot ELSE UNCHANGED chatVars
  /\ UNCHANGED << file, numPages, isLoading, currentPage, scale,
                  splitPdfPages, isSplit, ocrText, isProcessingOCR,
                  lastScroll, lastToast, controlsVars, navigatorVars, cacheVars,
                  ocrVars, notesVars, virtualizerVars >>

(***************************************************************************)
(* generateNotesFromText.  The notes are HTML, modelled as the sequence of *)
(* its elements, each a tag and a text; the answer of the API is one "raw" *)
(* element.  The awaits of a call (fetch, then the body) settle in one     *)
(* step: the call reads and writes no state of the program between them.   *)
(***************************************************************************)
Element(tag, text) == [tag |-> tag, text |-> text]

Period == << Run(".", 1) >>

\* s.length of a run: `Page <k>:` with one digit, the no-text message, or
\* n characters
RunLength(r) ==
  IF IsHeader(r) THEN 7
  ELSE IF << r >> = NoTextFound THEN 25
  ELSE r.n

RECURSIVE TextLength(_)
\* s.length
TextLength(s) == IF s = << >> THEN 0 ELSE RunLength(s[1]) + TextLength(Tail(s))

RECURSIVE SplitOnBlank(_, _)
\* text.split('\n\n'), piece being the part of the current piece read so
\* far: a run of n newlines holds n \div 2 separators, found from the left
SplitOnBlank(s, piece) ==
  IF s = << >> THEN << piece >>
  ELSE IF s[1].c = "\n" /\ s[1].n >= 2
       THEN << piece >>
              \o SplitOnBlank(Concat(Newlines(s[1].n - 2), Tail(s)), EmptyStr)
       ELSE SplitOnBlank(Tail(s), Concat(piece, << s[1] >>))

\* page.trim().startsWith('Page')
StartsWithPage(s) == Trim(s) # EmptyStr /\ IsHeader(Trim(s)[1])

RECURSIVE FirstLine(_)
\* page.split('\n')[0]
FirstLine(s) ==
  IF s = << >> \/ s[1].c = "\n" THEN EmptyStr
  ELSE Concat(<< s[1] >>, FirstLine(Tail(s)))

RECURSIVE AfterFirstLine(_)
\* the text after the first newline, empty when there is none
AfterFirstLine(s) ==
  IF s = << >> THEN EmptyStr
  ELSE IF s[1].c = "\n" THEN Concat(Newlines(s[1].n - 1), Tail(s))
  ELSE AfterFirstLine(Tail(s))

RECURSIVE NewlinesToSpaces(_)
\* s.split('\n').join(' ')
NewlinesToSpaces(s) ==
  IF s = << >> THEN EmptyStr
  ELSE Concat(IF s[1].c = "\n" THEN Spaces(s[1].n) ELSE << s[1] >>,
              NewlinesToSpaces(Tail(s)))

\* pageContent.split(/(?:\.|\?|\!)(?:\s+|\n)/g).filter(...).map(p =>
\* p.trim() + '.'): the page texts hold no sentence terminator followed by
\* white space, so the content is one piece
SentenceParagraphs(pageContent) ==
  IF Trim(pageContent) = EmptyStr THEN << >>
  ELSE << Concat(Trim(pageContent), Period) >>

RECURSIVE Strong(_)
\* paragraph.replace(/\b([A-Z][a-z]{2,}|[A-Z]{2,})\b/g,
\* '<strong>$1</strong>'): of the texts of the pages, the word Page of a
\* `Page <k>:` matches
Strong(s) ==
  IF s = << >> THEN EmptyStr
  ELSE << IF IsHeader(s[1]) THEN Run("<strong>Page</strong>:", s[1].n)
          ELSE s[1] >> \o Strong(Tail(s))

\* the h1 and the p the fallback starts with
FallbackHeader ==
  << Element("h1", Word("Complete PDF Content (API Processing Failed)")),
     Element("p", Word("Below is the complete text extracted from your PDF with minimal formatting.")) >>

\* the body of pages.forEach
FormatPage(page) ==
  LET pageTitle   == Trim(FirstLine(page))
      pageContent == Trim(NewlinesToSpaces(AfterFirstLine(page)))
      paragraphs  == SentenceParagraphs(pageContent)
  IN  << Element("h2", pageTitle) >>
        \o (IF Len(paragraphs) > 0
            THEN [i \in 1..Len(paragraphs) |->
                    Element("p", Trim(Strong(paragraphs[i])))]
            ELSE << Element("p", pageContent) >>)

RECURSIVE FormatPages(_)
FormatPages(ps) ==
  IF ps = << >> THEN << >> ELSE FormatPage(ps[1]) \o FormatPages(Tail(ps))

\* createFormattedNotes(text)
CreateFormattedNotes(text) ==
  LET pieces     == SplitOnBlank(text, EmptyStr)
      pagePieces == SelectSeq(pieces, LAMBDA page : StartsWithPage(page))
      paragraphs == SelectSeq(pieces, LAMBDA q : Trim(q) # EmptyStr)
  IN  IF Len(pagePieces) = 0
      THEN FallbackHeader
             \o [i \in 1..Len(paragraphs) |->
                   Element("p", Trim(paragraphs[i]))]
      ELSE FallbackHeader \o FormatPages(pagePieces)

RECURSIVE SanitizeHtml(_)
\* sanitizeHtml(html) for an html without tags: .replace(/\n{3,}/g, '\n\n')
\* and .replace(/ +/g, ' ')
SanitizeHtml(s) ==
  IF s = << >> THEN EmptyStr
  ELSE << IF s[1].c = "\n" /\ s[1].n >= 3 THEN Run("\n", 2)
          ELSE IF s[1].c = " " THEN Run(" ", 1)
          ELSE s[1] >> \o SanitizeHtml(Tail(s))

\* the ocrText arguments: the text of the viewer, a text of two pages the
\* second of which is empty, a page of two lines, the no-text message, and
\* a text of two paragraphs without pages
NotesTexts ==
  {ocrText,
   AppendPage(AppendPage(EmptyStr, 1, Letters(2)), 2, EmptyStr),
   AppendPage(EmptyStr, 1, Concat(Letters(1), Concat(Newlines(1), Letters(2)))),
   NoTextFound,
   Concat(Letters(2), Concat(Newlines(2), Letters(1)))}

\* data.choices[0].message.content of an answer that has one: nothing,
\* white space, a short text, and a text as long as the page texts
NotesContents ==
  {EmptyStr, Spaces(1), Letters(1),
   Concat(Letters(MinContent), Concat(Newlines(3), Concat(Spaces(2), Letters(1))))}

\* how the request goes: fetch rejects, the status is not OK, the body is
\* not JSON, the JSON has no choices[0].message, or it has a content
NotesOutcomes ==
  {[kind |-> k, content |-> EmptyStr] :
     k \in {"fetch rejects", "not ok", "not json", "no choices"}}
    \cup {[kind |-> "content", content |-> c] : c \in NotesContents}

\* the try block runs to its return
NotesSucceed(o) == o.kind = "content" /\ Trim(o.content) # EmptyStr

\* notes.length < ocrText.length * 0.7
NotesShort(notes, text) == 10 * TextLength(notes) < 7 * TextLength(text)

\* return { notes: sanitizedNotes }
TryResult(text, o) ==
  [arg |-> text, outcome |-> o.kind, content |-> o.content,
   settled |-> "resolved",
   notes |-> << Element("raw", SanitizeHtml(o.content)) >>]

\* the catch block throwing the error on
CatchResultRethrown(text, o) ==
  [arg |-> text, outcome |-> o.kind, content |-> o.content,
   settled |-> "rejected", notes |-> << >>]

\* the catch block: return { notes: createFormattedNotes(ocrText) }
CatchResult(text, o) ==
  [arg |-> text, outcome |-> o.kind, content |-> o.content,
   settled |-> "resolved",
   notes |-> CreateFormattedNotes(text)]

\* generateNotesFromText(text) is called and awaits fetch
GenerateNotesFromText ==
  /\ notesPc = "idle"
  /\ Len(notesLog) < MaxNotesCalls
  /\ \E text \in NotesTexts : notesArg' = text
  /\ notesPc' = "fetching"
  /\ UNCHANGED << notesLog, viewerVars, lastToast, controlsVars, navigatorVars,
                  ocrVars, cacheVars, chatVars, virtualizerVars >>

\* the request settles and the call returns
NotesSettle ==
  /\ notesPc = "fetching"
  /\ \E o \in NotesOutcomes :
       IF NotesSucceed(o)
       THEN /\ notesLog' = Append(notesLog, TryResult(notesArg, o))
            /\ lastToast' =
                 IF NotesShort(o.content, notesArg)
                 THEN "Notes may not contain all information from the PDF. Consider reviewing the original text."
                 ELSE lastToast
       ELSE /\ notesLog' = Append(notesLog, CatchResult(notesArg, o))
            /\ lastToast' = "Failed to generate complete notes. Falling back to raw OCR text formatting."
  /\ notesPc' = "idle"
  /\ notesArg' = EmptyStr
  /\ UNCHANGED << viewerVars, controlsVars, navigatorVars, ocrVars, cacheVars,
                  chatVars, virtualizerVars >>

(***************************************************************************)
(* The virtualizer of the page list (useVirtualizer).  No element is       *)
(* measured, so every item has the estimated size; item indexes are        *)
(* 0-based as in the code, pages[index] of the code is pages[index + 1]    *)
(* here.  The container has a positive height.                             *)
(***************************************************************************)
\* overscan: 1
Overscan == 1

\* for (let i = -2; i <= 2; i++)
BufferPages == 2

\* the heights of the container: less than a page at every scale, and more
\* than a page at every scale
ShortViewport == 4000

TallViewport == 9000

ViewportHeights == {ShortViewport, TallViewport}

Max(a, b) == IF a > b THEN a ELSE b

Min(a, b) == IF a < b THEN a ELSE b

\* count: pages.length
count == Len(pages)

\* measurements[index].start and .end
ItemStart(index) == index * EstimateSize

ItemEnd(index) == ItemStart(index) + EstimateSize

\* virtualizer.getTotalSize()
TotalSize == count * EstimateSize

\* the first index of the range: the last item that starts at or before
\* the scroll offset
StartIndex ==
  CHOOSE i \in 0..(count - 1) :
    /\ ItemStart(i) <= scrollOffset
    /\ i = count - 1 \/ ItemStart(i + 1) > scrollOffset

\* the last index of the range: the first item from StartIndex on that ends
\* at or after the bottom of the container, or the last item
EndIndex ==
  LET startIndex == StartIndex
  IN  CHOOSE j \in startIndex..(count - 1) :
        /\ j = count - 1 \/ ItemEnd(j) >= scrollOffset + outerSize
        /\ \A k \in startIndex..(j - 1) :
             ItemEnd(k) < scrollOffset + outerSize

\* the indexes of the items that intersect the container
VisibleIndexes == IF count = 0 THEN {} ELSE StartIndex..EndIndex

\* getVirtualItems without the overscan
VirtualIndexesNoOverscan == VisibleIndexes

\* the indexes of instance.getVirtualItems(): the range extended by the
\* overscan
VirtualIndexes ==
  IF count = 0 THEN {}
  ELSE Max(StartIndex - Overscan, 0)..Min(EndIndex + Overscan, count - 1)

\* visibleRange[0]?.index ?? 0
FirstVisible ==
  LET visibleRange == VirtualIndexes
  IN  IF visibleRange = {} THEN 0
      ELSE CHOOSE i \in visibleRange : \A k \in visibleRange : i <= k

\* visibleRange[visibleRange.length - 1]?.index ?? 0
LastVisible ==
  LET visibleRange == VirtualIndexes
  IN  IF visibleRange = {} THEN 0
      ELSE CHOOSE i \in visibleRange : \A k \in visibleRange : i >= k

\* the indexes added by the loop over i = -2 .. 2
BufferIndexes ==
  LET firstVisible == FirstVisible
      lastVisible  == LastVisible
  IN  {b \in {firstVisible + i : i \in (0 - BufferPages)..BufferPages}
               \cup {lastVisible + i : i \in (0 - BufferPages)..BufferPages} :
         b >= 0 /\ b < count}

\* the visibleIndexes set passed to setLoadedPages
NewLoadedPages == {pages[i + 1] : i \in VirtualIndexes \cup BufferIndexes}

\* onChange of the virtualizer
VirtualizerOnChange ==
  /\ currentPage' =
       IF VirtualIndexes # {} THEN pages[FirstVisible + 1] ELSE currentPage
  /\ loadedPages' = NewLoadedPages
  /\ UNCHANGED << file, numPages, isLoading, scale, splitPdfPages, isSplit,
                  ocrText, showChat, isProcessingOCR, lastScroll, lastToast,
                  scrollOffset, outerSize >>
  /\ UNCHANGED << controlsVars, navigatorVars, ocrVars, cacheVars, chatVars,
                  notesVars >>

\* the largest scroll offset of the container
MaxScroll == Max(TotalSize - outerSize, 0)

\* the offsets scrolled to: the top of every item and the end of the list
ScrollOffsets ==
  {o \in {ItemStart(i) : i \in 0..(count - 1)} : o <= MaxScroll}
    \cup {MaxScroll}

\* the container is scrolled, by the user or by scrollTo
Scroll ==
  /\ \E o \in ScrollOffsets : scrollOffset' = o
  /\ UNCHANGED << outerSize, loadedPages >>
  /\ UNCHANGED << viewerVars, lastToast, controlsVars, navigatorVars, ocrVars,
                  cacheVars, chatVars, notesVars >>

\* the container gets another height
Resize ==
  /\ \E h \in ViewportHeights : outerSize' = h
  /\ UNCHANGED << scrollOffset, loadedPages >>
  /\ UNCHANGED << viewerVars, lastToast, controlsVars, navigatorVars, ocrVars,
                  cacheVars, chatVars, notesVars >>

(***************************************************************************)
(* localStorage and the recent-files cache.  The value stored under a key  *)
(* is absent or a text; a text is modelled by what JSON.parse makes of it: *)
(* "array" with its items, "object" for JSON that is not an array, and     *)
(* "unparsable".  A base64 text is its length, its padding and whether     *)
(* atob accepts it.                                                        *)
(***************************************************************************)
Absent == [kind |-> "absent", items |-> << >>]

Unparsable == [kind |-> "unparsable", items |-> << >>]

NotAnArray == [kind |-> "object", items |-> << >>]

\* the value of a key of another feature
OtherText == [kind |-> "text", items |-> << >>]

\* JSON.stringify(history)
Stringify(history) == [kind |-> "array", items |-> history]

\* localStorage holds the cache key and the keys of other features of the
\* origin
EmptyStorage == [pdfHistory |-> Absent, other |-> Absent]

\* localStorage.clear()
Clear(st) == EmptyStorage

\* localStorage.removeItem("pdfHistory")
RemoveHistory(st) == [st EXCEPT !.pdfHistory = Absent]

\* localStorage.setItem("pdfHistory", JSON.stringify(history))
SetHistory(st, history) == [st EXCEPT !.pdfHistory = Stringify(history)]

\* reader.result.split(',')[1] for a file of size bytes
Base64Of(size) ==
  [chars |-> 4 * ((size + 2) \div 3), pad |-> (3 - (size % 3)) % 3,
   valid |-> TRUE]

\* a text atob rejects
CorruptData == [chars |-> 3, pad |-> 0, valid |-> FALSE]

\* the length of atob(data)
DecodedLength(data) == (3 * data.chars) \div 4 - data.pad

\* estimatedSize > MAX_STORAGE_SIZE with estimatedSize = length * 0.75
TooLarge(data) == 3 * data.chars > 4 * MAX_STORAGE_SIZE

NoFile == [name |-> "", size |-> 0, pages |-> << >>]

FileNames == {"a", "b", "c", "d"}

\* a small file, the largest file that is cached, and a file of 4 MiB
FileSizes == {1, MAX_STORAGE_SIZE - 1, MAX_STORAGE_SIZE}

\* the files the user uploads
UploadFiles ==
  {[name |-> nm, size |-> sz, pages |-> << TextPage >>] :
     nm \in FileNames, sz \in FileSizes}

\* history.filter(item => item.name !== name)
RECURSIVE WithoutName(_, _)
WithoutName(history, name) ==
  IF history = << >> THEN << >>
  ELSE IF history[1].name # name
       THEN << history[1] >> \o WithoutName(Tail(history), name)
       ELSE WithoutName(Tail(history), name)

\* the first k items
Slice(history, k) ==
  SubSeq(history, 1, IF Len(history) < k THEN Len(history) ELSE k)

\* the item added without the filter on its name
UpdatedHistoryUnfiltered(historyItem, history) ==
  Slice(<< historyItem >> \o history, MaxHistory)

\* the filter without the slice
UpdatedHistoryUnsliced(historyItem, history) ==
  << historyItem >> \o WithoutName(history, historyItem.name)

\* the item put at the end of the list
UpdatedHistoryAtEnd(historyItem, history) ==
  Slice(WithoutName(history, historyItem.name) \o << historyItem >>,
        MaxHistory)

\* [historyItem, ...history.filter(...)].slice(0, 3)
UpdatedHistory(historyItem, history) ==
  Slice(<< historyItem >> \o WithoutName(history, historyItem.name),
        MaxHistory)

\* PDFHistory.getHistory: the list it returns
GetHistory(st) ==
  IF st.pdfHistory.kind = "array" THEN st.pdfHistory.items ELSE << >>

\* getHistory without the removal
AfterGetHistoryKeeping(st) == st

\* PDFHistory.getHistory: localStorage after it
AfterGetHistory(st) ==
  IF st.pdfHistory.kind = "unparsable" THEN RemoveHistory(st) ELSE st

\* FileUpload.onDrop and Index.handleFileSelect
SelectFile ==
  /\ file = NoFile
  /\ \E f \in UploadFiles : \E isPdf \in BOOLEAN :
       IF ~isPdf
       THEN /\ lastToast' = "Please upload a PDF file"
            /\ UNCHANGED << file, reader >>
       ELSE /\ file' = f
            /\ reader' = "reading"
            /\ UNCHANGED lastToast
  /\ UNCHANGED << numPages, isLoading, currentPage, scale, splitPdfPages,
                  isSplit, ocrText, showChat, isProcessingOCR, lastScroll,
                  controlsVars, navigatorVars, ocrVars, storage, now >>
  /\ UNCHANGED << chatVars, notesVars, virtualizerVars >>

\* no file is too large
RejectedBySizeNever(data) == FALSE

\* if (estimatedSize > MAX_STORAGE_SIZE) { toast.warning(...); return; }
RejectedBySize(data) == TooLarge(data)

\* reader.onload of Index.handleFileSelect
ReaderOnLoad ==
  /\ reader = "reading"
  /\ reader' = "idle"
  /\ LET base64Data  == Base64Of(file.size)
         historyItem == [name |-> file.name, data |-> base64Data,
                         lastOpened |-> now]
     IN  IF RejectedBySize(base64Data)
         THEN /\ lastToast' = "File too large to save in history"
              /\ UNCHANGED storage
         ELSE \E firstWrite, secondWrite \in BOOLEAN :
                \* JSON.parse and history.filter do not throw and the first
                \* setItem does not throw
                IF storage.pdfHistory.kind \in {"absent", "array"}
                     /\ firstWrite
                THEN /\ storage' =
                          SetHistory(storage,
                                     UpdatedHistory(historyItem,
                                                    GetHistory(storage)))
                     /\ UNCHANGED lastToast
                \* the catch: clear, and the second setItem
                ELSE IF secondWrite
                THEN /\ storage' =
                          SetHistory(Clear(storage), << historyItem >>)
                     /\ UNCHANGED lastToast
                ELSE /\ storage' = Clear(storage)
                     /\ lastToast' = "Could not save to history: storage full"
  /\ UNCHANGED << viewerVars, controlsVars, navigatorVars, ocrVars, now >>
  /\ UNCHANGED << chatVars, notesVars, virtualizerVars >>

\* reader.onerror
ReaderOnError ==
  /\ reader = "reading"
  /\ reader' = "idle"
  /\ lastToast' = "Error reading file"
  /\ UNCHANGED << viewerVars, controlsVars, navigatorVars, ocrVars, storage,
                  now >>
  /\ UNCHANGED << chatVars, notesVars, virtualizerVars >>

\* PDFHistory is rendered while no file is chosen: getHistory
RenderHistory ==
  /\ file = NoFile
  /\ storage' = AfterGetHistory(storage)
  /\ UNCHANGED << viewerVars, lastToast, controlsVars, navigatorVars, ocrVars,
                  reader, now >>
  /\ UNCHANGED << chatVars, notesVars, virtualizerVars >>

\* PDFHistory.handleFileOpen on a button of the list
HandleFileOpen ==
  /\ file = NoFile
  /\ \E i \in 1..Len(GetHistory(storage)) :
       LET historyItem == GetHistory(storage)[i]
       IN  IF historyItem.data.valid
           THEN /\ file' = [name  |-> historyItem.name,
                            size  |-> DecodedLength(historyItem.data),
                            pages |-> << TextPage >>]
                /\ reader' = "reading"
                /\ UNCHANGED << storage, lastToast >>
           ELSE /\ lastToast' = "Could not open the file"
                /\ \E write \in BOOLEAN :
                     storage' =
                       IF write
                       THEN SetHistory(AfterGetHistory(storage),
                                       WithoutName(GetHistory(storage),
                                                   historyItem.name))
                       ELSE AfterGetHistory(storage)
                /\ UNCHANGED << file, reader >>
  /\ UNCHANGED << numPages, isLoading, currentPage, scale, splitPdfPages,
                  isSplit, ocrText, showChat, isProcessingOCR, lastScroll,
                  controlsVars, navigatorVars, ocrVars, now >>
  /\ UNCHANGED << chatVars, notesVars, virtualizerVars >>

\* the page is loaded again: the components start over, localStorage stays
Reload ==
  /\ file # NoFile
  /\ file' = NoFile
  /\ reader' = "idle"
  /\ lastToast' = None
  /\ UNCHANGED << numPages, isLoading, currentPage, scale, splitPdfPages,
                  isSplit, ocrText, showChat, isProcessingOCR, lastScroll,
                  controlsVars, navigatorVars, ocrVars, storage, now >>
  /\ UNCHANGED << chatVars, notesVars, virtualizerVars >>

\* time passes
Tick ==
  /\ now < MaxClock
  /\ now' = now + 1
  /\ UNCHANGED << viewerVars, lastToast, controlsVars, navigatorVars, ocrVars,
                  storage, reader >>
  /\ UNCHANGED << chatVars, notesVars, virtualizerVars >>

(***************************************************************************)
(* The state after PDFViewer is mounted on file f: the useState initial    *)
(* values, and the scale set by the mount effect.                          *)
(***************************************************************************)
InitViewer(f) ==
  /\ file = f
  /\ numPages = 0
  /\ isLoading = TRUE
  /\ currentPage = 1
  /\ scale \in {ScaleForWidth(width) : width \in Widths}
  /\ splitPdfPages = << >>
  /\ isSplit = FALSE
  /\ ocrText = EmptyStr
  /\ showChat = FALSE
  /\ isProcessingOCR = FALSE
  /\ lastScroll = NoScroll
  /\ lastToast = None

\* localStorage holds st and no file is being read
InitCache(st) ==
  /\ storage = st
  /\ reader = "idle"
  /\ now = 0

InitControls ==
  /\ startPage = 1
  /\ endPage = 1
  /\ showSplitControls = FALSE

InitNavigator ==
  /\ isDialogOpen = FALSE
  /\ jumpToPage = << >>

\* no performOCR call has been made
InitOcr ==
  /\ ocrPc = "idle"
  /\ pageNumbers = << >>
  /\ ocrIndex = 0
  /\ fullText = EmptyStr
  /\ pageText = EmptyStr
  /\ imageBasedPagesCount = 0
  /\ loadingToasts = {}
  /\ recognizeCalls = << >>
  /\ noContextPages = {}

\* no ChatBot has been mounted; key tells whether VITE_API_KEY is set
InitChat(key) ==
  /\ messages = InitialMessages
  /\ input = EmptyStr
  /\ isProcessing = FALSE
  /\ apiKey = key
  /\ chatPc = "idle"
  /\ response = NoResponse
  /\ orphans = 0

\* no generateNotesFromText call has been made
InitNotes ==
  /\ notesPc = "idle"
  /\ notesArg = EmptyStr
  /\ notesLog = << >>

\* the container is height tall and scrolled to its top
InitVirtualizer(height) ==
  /\ scrollOffset = 0
  /\ outerSize = height
  /\ loadedPages = {}

(***************************************************************************)
(* SpecNav: a document is loaded, split and navigated.                     *)
(***************************************************************************)
InitNav ==
  /\ \E f \in TextFiles : InitViewer(f)
  /\ InitControls
  /\ InitNavigator
  /\ InitOcr
  /\ InitCache(EmptyStorage)
  /\ InitChat(TRUE)
  /\ InitNotes
  /\ InitVirtualizer(TallViewport)

NextNav ==
  \/ OnDocumentLoadSuccess
  \/ UpdateScale
  \/ ToggleSplitControls
  \/ SetStartPage
  \/ SetEndPage
  \/ ControlsHandleSplit
  \/ SetIsDialogOpen
  \/ SetJumpToPage
  \/ NavigatorHandleJumpToPage

SpecNav == InitNav /\ [][NextNav]_vars

(***************************************************************************)
(* SpecCache: files are chosen, session after session, over a localStorage *)
(* that holds what earlier sessions or other programs left in it.          *)
(***************************************************************************)
\* the items found in the cache at the start: of files that were cached,
\* or with data atob rejects
FoundItems ==
  {[name |-> nm, data |-> d, lastOpened |-> 0] :
     nm \in FileNames,
     d \in {Base64Of(sz) : sz \in {x \in FileSizes : ~TooLarge(Base64Of(x))}}
             \cup {CorruptData}}

NoRepeatedName(history) ==
  \A i, j \in 1..Len(history) : history[i].name = history[j].name => i = j

\* the lists of at most MaxHistory items with different names
FoundHistories ==
  {h \in UNION {[1..n -> FoundItems] : n \in 0..MaxHistory} :
     NoRepeatedName(h)}

FoundStorages ==
  {[pdfHistory |-> v, other |-> o] :
     v \in {Absent, Unparsable, NotAnArray}
             \cup {Stringify(h) : h \in FoundHistories},
     o \in {Absent, OtherText}}

InitCacheSpec ==
  /\ InitViewer(NoFile)
  /\ scale = ScaleForWidth(MediumBreakpoint)
  /\ InitControls
  /\ InitNavigator
  /\ InitOcr
  /\ \E st \in FoundStorages : InitCache(st)
  /\ InitChat(TRUE)
  /\ InitNotes
  /\ InitVirtualizer(TallViewport)

NextCache ==
  \/ SelectFile
  \/ ReaderOnLoad
  \/ ReaderOnError
  \/ RenderHistory
  \/ HandleFileOpen
  \/ Reload
  \/ Tick

SpecCache == InitCacheSpec /\ [][NextCache]_vars

(***************************************************************************)
(* Split and jump-to-page: the claims.                                     *)
(***************************************************************************)
\* C1: applying a split with 1 <= start <= end <= numPages makes the active
\* page sequence exactly start, start + 1, ..., end, whether or not a split
\* was active before.
C1_SplitYieldsRange ==
  [][(ControlsHandleSplit
        /\ 1 <= startPage /\ startPage <= endPage /\ endPage <= numPages)
       => /\ Len(pages') = endPage - startPage + 1
          /\ \A i \in 1..Len(pages') : pages'[i] = startPage + (i - 1)]_vars

\* a split of a range that does not start at page 1 has been applied
C1_Witness ==
  /\ isSplit
  /\ lastToast = "PDF split"
  /\ ~showSplitControls
  /\ startPage > 1
  /\ splitPdfPages = [i \in 1..(endPage - startPage + 1) |-> startPage + (i - 1)]

\* C2: applying a split with start > end, start < 1 or end > numPages leaves
\* the active page sequence, the isSplit flag and the current page as they
\* were.
C2_InvalidSplitNoChange ==
  [][(ControlsHandleSplit
        /\ (startPage > endPage \/ startPage < 1 \/ endPage > numPages))
       => UNCHANGED << pages, splitPdfPages, isSplit, currentPage >>]_vars

\* an invalid range is in the fields while a split made earlier is active
C2_Witness ==
  /\ showSplitControls
  /\ isSplit
  /\ endPage > numPages
  /\ startPage >= 1
  /\ startPage <= endPage
  /\ splitPdfPages # << >>

\* the number a field text denotes, in tenths
FieldTenths(t) ==
  LET neg   == t[1] = "-"
      rest  == IF neg THEN Tail(t) ELSE t
      whole == DigitPrefix(rest)
      after == SubSeq(rest, Len(whole) + 1, Len(rest))
      tenth == IF after = << >> THEN 0 ELSE DigitValue(after[2])
      abs   == 10 * DecimalValue(whole) + tenth
  IN  IF neg THEN 0 - abs ELSE abs

\* the field text is not a number, or denotes a number outside 1..totalPages
OutsidePageRange(t) ==
  \/ t = << >>
  \/ FieldTenths(t) < 10
  \/ FieldTenths(t) > 10 * totalPages

\* C3, as stated: a jump to an input that is not a number or lies outside
\* 1..totalPages shows the error, issues no scroll and leaves the current
\* page as it was.
C3_InvalidJumpRejected ==
  [][(NavigatorHandleJumpToPage /\ OutsidePageRange(jumpToPage))
       => /\ lastToast' = "Please enter a valid page number"
          /\ UNCHANGED << lastScroll, currentPage >>]_vars

\* C3: a jump to an input with no leading integer, or whose leading integer
\* (what parseInt reads, the fraction dropped) lies outside 1..totalPages,
\* shows the error, issues no scroll and changes nothing of the viewer, the
\* dialog or the field.
C3_JumpRejectedOnIntegerPart ==
  [][(NavigatorHandleJumpToPage
        /\ (ParseInt(jumpToPage).nan
              \/ ParseInt(jumpToPage).val < 1
              \/ ParseInt(jumpToPage).val > Len(pages)))
       => /\ lastToast' = "Please enter a valid page number"
          /\ UNCHANGED << lastScroll, currentPage, viewerVars,
                          navigatorVars >>]_vars

\* a jump to a page past the end of a split has been rejected after an
\* earlier jump had scrolled
C3_Witness ==
  /\ lastToast = "Please enter a valid page number"
  /\ isDialogOpen
  /\ isSplit
  /\ ~ParseInt(jumpToPage).nan
  /\ ParseInt(jumpToPage).val > Len(splitPdfPages)
  /\ ParseInt(jumpToPage).val <= numPages
  /\ lastScroll # NoScroll

\* C4: a jump to a valid page p scrolls to (p - 1) * pageHeight * scale, the
\* offset of the p-th page of the active sequence, with and without a split.
C4_JumpScrollsToIndexOffset ==
  [][(NavigatorHandleJumpToPage /\ ~JumpRejected(ParseInt(jumpToPage)))
       => lastScroll'.top
            = (ParseInt(jumpToPage).val - 1) * PageHeightPx * scale]_vars

\* the page numbers of a sequence of pages
PageSet(seq) == {seq[i] : i \in 1..Len(seq)}

\* C26, as stated: an accepted split only narrows; the pages of the new
\* active sequence are among the pages of the sequence active immediately
\* before, also when a split is already active.
C26_SplitOnlyNarrows ==
  [][(ControlsHandleSplit /\ SplitAccepted(startPage, endPage))
       => PageSet(pages') \subseteq PageSet(pages)]_vars

\* C26: an accepted split makes a range of pages of the document the
\* active sequence; the range lies inside the sequence active before when
\* no split was active, and may leave it when a split was.
C26_SplitStaysInDocument ==
  [][(ControlsHandleSplit /\ SplitAccepted(startPage, endPage))
       => /\ PageSet(pages') = startPage..endPage
          /\ PageSet(pages') \subseteq 1..numPages
          /\ ~isSplit => PageSet(pages') \subseteq PageSet(pages)]_vars

\* the first page alone was split off, and a second split has brought the
\* whole document back
C26_Witness ==
  /\ isSplit
  /\ numPages = 2
  /\ startPage = 1
  /\ endPage = 2
  /\ splitPdfPages = << 1, 2 >>
  /\ lastToast = "PDF split"

(***************************************************************************)
(* SpecExtract: a document is loaded and split and its text is extracted,  *)
(* in a window at least MediumBreakpoint wide.                             *)
(***************************************************************************)
InitExtract ==
  /\ \E f \in MixedFiles : InitViewer(f)
  /\ scale = ScaleForWidth(MediumBreakpoint)
  /\ InitControls
  /\ InitNavigator
  /\ InitOcr
  /\ InitCache(EmptyStorage)
  /\ InitChat(TRUE)
  /\ InitNotes
  /\ InitVirtualizer(TallViewport)

NextExtract ==
  \/ OnDocumentLoadSuccess
  \/ ToggleSplitControls
  \/ TypeRangeAndApply
  \/ HandlePerformOCR
  \/ OcrGetDocument
  \/ OcrGetTextContent
  \/ OcrExtractImages
  \/ OcrRecognize
  \/ OcrReturn
  \/ OcrThrow
  \/ ToggleChat

SpecExtract == InitExtract /\ [][NextExtract]_vars

\* SpecExtract in which every awaited call of a running extraction settles
SpecExtractLive ==
  /\ SpecExtract
  /\ WF_vars(OcrGetDocument \/ OcrGetTextContent \/ OcrExtractImages
               \/ OcrRecognize \/ OcrReturn \/ OcrThrow)

(***************************************************************************)
(* Text extraction: the claims.                                            *)
(***************************************************************************)
RECURSIVE TextBeforeHeader(_)
\* the part of s before its first `Page <k>:`
TextBeforeHeader(s) ==
  IF s = << >> \/ IsHeader(s[1]) THEN << >>
  ELSE << s[1] >> \o TextBeforeHeader(Tail(s))

RECURSIVE SectionsOf(_)
\* s cut at its `Page <k>:` headers: the page of each header and the text
\* that follows it; text before the first header makes a section of page 0
SectionsOf(s) ==
  IF s = << >> THEN << >>
  ELSE LET start == IF IsHeader(s[1]) THEN Tail(s) ELSE s
           body  == TextBeforeHeader(start)
       IN  << [page |-> IF IsHeader(s[1]) THEN s[1].n ELSE 0, body |-> body] >>
             \o SectionsOf(SubSeq(start, Len(body) + 1, Len(start)))

Recognized == {recognizeCalls[i] : i \in 1..Len(recognizeCalls)}

\* the text extracted for a page by the running call
ExtractedText(pageNum) ==
  IF pageNum \in Recognized
  THEN Concat(Concat(NativeText(pageNum), Spaces(1)),
              file.pages[pageNum].scan)
  ELSE NativeText(pageNum)

\* the pages the running call has finished
Processed == {pageNumbers[i] : i \in 1..(ocrIndex - 1)}

NativeLength(pageNum) == StrLength(Trim(NativeText(pageNum)))

\* C5: the text a successful run returns has one `Page <n>:` header per
\* requested page, in the order of the list, each followed by a line break,
\* the trimmed text of that page and a blank line.
C5_SectionsFollowPageList ==
  [][OcrReturn
       => LET secs == SectionsOf(ocrText')
          IN  /\ Len(secs) = Len(pageNumbers)
              /\ \A i \in 1..Len(secs) :
                   /\ secs[i].page = pageNumbers[i]
                   /\ secs[i].body
                        = Concat(Concat(Newlines(1),
                                        Trim(ExtractedText(pageNumbers[i]))),
                                 Newlines(2))]_vars

\* a run over two pages has returned its text
C5_Witness ==
  /\ ocrPc = "idle"
  /\ lastToast = "OCR completed"
  /\ Len(SectionsOf(ocrText)) = 2
  /\ SectionsOf(ocrText)[1].page = 1
  /\ SectionsOf(ocrText)[2].page = 2

\* C6, as claimed: a processed page with at least MinContent characters of
\* trimmed native text has no recognition call, and a processed page with
\* fewer has one.
C6_ShortPageAlwaysRecognized ==
  ocrPc # "idle"
    => \A p \in Processed :
         /\ NativeLength(p) >= MinContent => p \notin Recognized
         /\ NativeLength(p) < MinContent => p \in Recognized

\* C6, amended: a processed page with at least MinContent characters of
\* trimmed native text has no recognition call; a processed page with fewer
\* has one exactly when the canvas gave a 2d context to rasterize it.
C6_ShortPageRecognizedIfRasterized ==
  ocrPc # "idle"
    => \A p \in Processed :
         /\ NativeLength(p) >= MinContent => p \notin Recognized
         /\ NativeLength(p) < MinContent
              => (p \in Recognized <=> p \notin noContextPages)

\* a run has finished a page of native text without a recognition call and a
\* short page with one
C6_Witness ==
  /\ ocrPc = "text"
  /\ \E p \in Processed : NativeLength(p) >= MinContent /\ p \notin Recognized
  /\ \E p \in Processed :
       NativeLength(p) = MinContent - 1 /\ p \in Recognized

\* every page of the file has at least MinContent characters of trimmed
\* native text
AllNative ==
  \A p \in 1..Len(file.pages) : NativeLength(p) >= MinContent

\* C10: on a document of native-text pages, an extraction requested after a
\* split (s, e) runs on the pages s..e, returns exactly e - s + 1 sections,
\* for the pages s..e in that order, and makes no recognition call.
C10_NativeDocumentExtraction ==
  [][/\ HandlePerformOCR
          => \E s \in 1..numPages : \E e \in s..numPages :
               pageNumbers' = [i \in 1..(e - s + 1) |-> s + (i - 1)]
     /\ (OcrReturn /\ AllNative)
          => /\ recognizeCalls = << >>
             /\ Len(SectionsOf(ocrText')) = Len(pageNumbers)
             /\ \A i \in 1..Len(pageNumbers) :
                  SectionsOf(ocrText')[i].page = pageNumbers[i]]_vars

\* the text of pages 1..2 of a native-text document has been extracted
C10_Witness ==
  /\ AllNative
  /\ ocrPc = "idle"
  /\ isSplit
  /\ splitPdfPages = << 1, 2 >>
  /\ Len(SectionsOf(ocrText)) = 2
  /\ showChat

\* C13: when an awaited call of an extract run throws, the failure is shown,
\* ocrText keeps the value it had before the run (the text of the pages
\* already processed is dropped with the locals of the call), the run does
\* not open the chat panel, and isProcessingOCR is cleared.
C13_FailedRunKeepsText ==
  [][OcrThrow
       => /\ lastToast' = "Failed to extract text from PDF. Please try again."
          /\ ocrText' = ocrText
          /\ showChat' = showChat
          /\ ~isProcessingOCR'
          /\ fullText' = EmptyStr
          /\ ocrPc' = "idle"]_vars

\* a second run over a document extracted before has failed, the chat
\* panel being closed
C13_Witness ==
  /\ lastToast = "Failed to extract text from PDF. Please try again."
  /\ ocrPc = "idle"
  /\ ~isProcessingOCR
  /\ ocrText # EmptyStr
  /\ ~showChat

\* C14: the loading toast shown for a page when its recognition starts is
\* eventually dismissed, whether the recognition succeeds or throws.
C14_PageToastEventuallyDismissed ==
  \A p \in 1..MaxPages :
    (PageToast(p) \in loadingToasts) ~> (PageToast(p) \notin loadingToasts)

\* C15: a run is in progress only over the non-empty range of an active
\* split, the chat panel is shown only when ocrText is not empty, and
\* ocrText is not empty only when a split is active.
C15_ControlsGated ==
  /\ isProcessingOCR => (isSplit /\ pageNumbers # << >>)
  /\ showChat => ocrText # EmptyStr
  /\ ocrText # EmptyStr => (isSplit /\ splitPdfPages # << >>)

\* a second run is in progress while the chat panel of the first is shown
C15_Witness ==
  /\ isProcessingOCR
  /\ ocrPc = "text"
  /\ showChat
  /\ ocrText # EmptyStr
  /\ isSplit

\* the section a page with the text pText gets in the returned text
SectionBody(pText) ==
  Concat(Concat(Newlines(1), Trim(pText)), Newlines(2))

\* C23, as stated: in the text a run returns, the section of every page
\* whose trimmed native text is shorter than MinContent (50) holds the
\* trimmed text the recognition returned for it, whatever its native text.
C23_ImagePageTextIsRecognizedText ==
  [][OcrReturn
       => \A i \in 1..Len(pageNumbers) :
            NativeLength(pageNumbers[i]) < MinContent
              => SectionsOf(ocrText')[i].body
                   = SectionBody(file.pages[pageNumbers[i]].scan)]_vars

\* C23: in the text a run returns, the section of a page whose trimmed
\* native text is shorter than MinContent (50) holds the native text, a
\* space and the recognized text, trimmed as a whole; that is the
\* recognized text alone when the native text is blank, and the native text
\* alone when the page could not be drawn for the recognition.
C23_ImagePageTextIsNativeThenRecognized ==
  [][OcrReturn
       => \A i \in 1..Len(pageNumbers) :
            LET pageNum == pageNumbers[i]
                native  == NativeText(pageNum)
                scan    == file.pages[pageNum].scan
                body    == SectionsOf(ocrText')[i].body
            IN  NativeLength(pageNum) < MinContent
                  => /\ pageNum \notin noContextPages
                          => body = SectionBody(Concat(Concat(native, Spaces(1)),
                                                       scan))
                     /\ (pageNum \notin noContextPages /\ Trim(native) = EmptyStr)
                          => body = SectionBody(scan)
                     /\ pageNum \in noContextPages
                          => body = SectionBody(native)]_vars

\* a run over a page with 49 letters of native text and a scan has
\* returned: the section of the page holds both texts
C23_Witness ==
  /\ ocrPc = "idle"
  /\ lastToast = "OCR completed"
  /\ file.pages = << ShortPage >>
  /\ ocrText = AppendPage(EmptyStr, 1,
                          Concat(Concat(JoinWithSpace(ShortPage.items), Spaces(1)),
                                 ShortPage.scan))
  /\ ocrText # AppendPage(EmptyStr, 1, ShortPage.scan)

\* the pages of the `Page <k>:` headers of a text, in order
SectionPages(text) ==
  [i \in 1..Len(SectionsOf(text)) |-> SectionsOf(text)[i].page]

\* C24: a split applied while an extract run is in flight leaves the run as
\* it is; a run starts over the range active at its start, keeps that
\* range to its end, and when it returns the headers of ocrText are the
\* pages of that range, whatever range is active by then.
C24_SplitDoesNotCancelRun ==
  /\ [][(TypeRangeAndApply /\ isProcessingOCR)
         => UNCHANGED << isProcessingOCR, ocrPc, pageNumbers, ocrIndex,
                         fullText, ocrText >>]_vars
  /\ [][HandlePerformOCR => pageNumbers' = splitPdfPages]_vars
  /\ [][(isProcessingOCR /\ pageNumbers' # pageNumbers)
         => (OcrReturn \/ OcrThrow)]_vars
  /\ [][OcrReturn => SectionPages(ocrText') = pageNumbers]_vars

\* a run started over the first page has returned after the document was
\* split to its second page: the text is that of page 1, the active range
\* is page 2
C24_Witness ==
  /\ ocrPc = "idle"
  /\ lastToast = "OCR completed"
  /\ SectionPages(ocrText) = << 1 >>
  /\ splitPdfPages = << 2 >>
  /\ pages # SectionPages(ocrText)

(***************************************************************************)
(* The recent-files cache: the claims.                                     *)
(***************************************************************************)
\* the cache as PDFHistory reads it
Cache == GetHistory(storage)

\* C7: the cache stored under pdfHistory never holds more than MaxHistory
\* (3) entries.
C7_CacheAtMostThree == Len(Cache) <= MaxHistory

\* a file was inserted into a full cache that did not hold its name
C7_Witness ==
  /\ reader = "idle"
  /\ file # NoFile
  /\ Len(Cache) = MaxHistory
  /\ Cache[1].name = file.name
  /\ Cache[1].lastOpened = MaxClock
  /\ \A i \in 2..Len(Cache) : Cache[i].lastOpened = 0

\* C8: the cache never holds two entries with the same name.
C8_CacheNamesDistinct == NoRepeatedName(Cache)

\* a file was inserted anew into a cache of several entries
C8_Witness ==
  /\ reader = "idle"
  /\ file # NoFile
  /\ Len(Cache) >= 2
  /\ Cache[1].name = file.name
  /\ Cache[1].lastOpened > Cache[2].lastOpened
  /\ Cache[1].data = Base64Of(file.size)

\* the entry reader.onload makes of the file
ItemOfFile ==
  [name |-> file.name, data |-> Base64Of(file.size), lastOpened |-> now]

\* base64 length x 0.75 exceeds 4 MiB
EstimateExceedsLimit == 3 * Base64Of(file.size).chars > 4 * MAX_STORAGE_SIZE

\* C9, as claimed: a file whose estimated size exceeds 4 MiB leaves the
\* cache as it was and shows the warning; any other file is inserted.
C9_SmallFileAlwaysInserted ==
  [][ReaderOnLoad
       => /\ EstimateExceedsLimit
               => /\ storage' = storage
                  /\ lastToast' = "File too large to save in history"
          /\ ~EstimateExceedsLimit
               => /\ Len(GetHistory(storage')) >= 1
                  /\ GetHistory(storage')[1] = ItemOfFile]_vars

\* C9, amended: a file whose estimated size exceeds 4 MiB, as that of a
\* file of exactly 4 MiB does, leaves the cache as it was and shows the
\* warning; any other file is inserted at the head of the cache, unless
\* both writes to the storage fail, and then the storage is left empty and
\* the failure is shown.
C9_SmallFileInsertedUnlessWritesFail ==
  [][ReaderOnLoad
       => /\ (EstimateExceedsLimit \/ file.size = MAX_STORAGE_SIZE)
               => /\ storage' = storage
                  /\ lastToast' = "File too large to save in history"
          /\ ~EstimateExceedsLimit
               => \/ /\ Len(GetHistory(storage')) >= 1
                     /\ GetHistory(storage')[1] = ItemOfFile
                  \/ /\ storage' = EmptyStorage
                     /\ lastToast'
                          = "Could not save to history: storage full"]_vars

\* a file of 4 MiB was chosen and the cache still holds what it held
C9_Witness ==
  /\ reader = "idle"
  /\ file.size = MAX_STORAGE_SIZE
  /\ lastToast = "File too large to save in history"
  /\ Len(Cache) = 2
  /\ \A i \in 1..Len(Cache) : Cache[i].name # file.name

InsertWriteFailed ==
  /\ ReaderOnLoad
  /\ ~RejectedBySize(Base64Of(file.size))
  /\ \/ storage.pdfHistory.kind \notin {"absent", "array"}
     \/ storage' # SetHistory(storage, UpdatedHistory(ItemOfFile, Cache))

\* C27: when the write of the cache fails during an insert (stored data
\* unparsable or not an array, or quota exceeded), afterwards the cache is
\* exactly the new entry or empty, the user has been shown the storage
\* message, and the keys of storage other than the cache key are as they
\* were.
C27_FailedInsertRecoversLocally ==
  [][InsertWriteFailed
       => /\ GetHistory(storage') \in {<< ItemOfFile >>, << >>}
          /\ lastToast' = "Could not save to history: storage full"
          /\ storage'.other = storage.other]_vars

(***************************************************************************)
(* SpecChat: questions are asked in the chat panel of a viewer whose       *)
(* one-page document has been split and extracted.                         *)
(***************************************************************************)
\* the state in which handlePerformOCR leaves the viewer of a one-page
\* text document split to its page (a state of SpecExtract)
InitChatSpec ==
  /\ file = [name |-> "a", size |-> 1, pages |-> << JoinedPage >>]
  /\ numPages = 1
  /\ isLoading = FALSE
  /\ currentPage = 1
  /\ scale = ScaleForWidth(MediumBreakpoint)
  /\ splitPdfPages = << 1 >>
  /\ isSplit = TRUE
  /\ ocrText = AppendPage(EmptyStr, 1, JoinWithSpace(JoinedPage.items))
  /\ showChat = TRUE
  /\ isProcessingOCR = FALSE
  /\ lastScroll = NoScroll
  /\ lastToast = "OCR completed"
  /\ InitControls
  /\ InitNavigator
  /\ InitOcr
  /\ InitCache(EmptyStorage)
  /\ \E key \in BOOLEAN : InitChat(key)
  /\ InitNotes
  /\ InitVirtualizer(TallViewport)

NextChat ==
  \/ SetInput
  \/ ChatHandleSubmit
  \/ ChatFetchSettles
  \/ ChatReadBody
  \/ OrphanSettles
  \/ ChatClose
  \/ ToggleChat

SpecChat == InitChatSpec /\ [][NextChat]_vars

(***************************************************************************)
(* The chat: the claims.                                                   *)
(***************************************************************************)
\* C11: when a chat request fails with status 429, whatever the body of
\* the response, the handler leaves a transcript whose last message is an
\* assistant turn containing the rate-limit message and in which no
\* thinking turn is left.
C11_RateLimitMessageOn429 ==
  [][(ChatReadBody /\ response.status = "429")
       => /\ messages'[Len(messages')].role = "assistant"
          /\ Includes(messages'[Len(messages')].content, RateLimitText)
          /\ \A i \in 1..Len(messages') :
               messages'[i] # Message("assistant", Thinking)]_vars

\* s is a prefix of t
IsPrefix(s, t) == Len(s) <= Len(t) /\ SubSeq(t, 1, Len(s)) = s

\* the transcript without the thinking turns of the assistant
WithoutPlaceholder(msgs) ==
  SelectSeq(msgs, LAMBDA m : m # Message("assistant", Thinking))

\* the transcript without the messages of either role that read
\* "Thinking..."
WithoutThinkingTexts(msgs) == SelectSeq(msgs, LAMBDA m : m.content # Thinking)

\* C12, as stated: ignoring the thinking placeholder, the transcript before
\* any step is a prefix of the transcript after it, whatever is typed and
\* answered, and across closing and reopening the chat panel.
C12_TranscriptAppendOnly ==
  [][IsPrefix(WithoutPlaceholder(messages),
              WithoutPlaceholder(messages'))]_vars

\* C12: while the chat panel stays open, and ignoring every message whose
\* text is "Thinking..." (the placeholder, and a question or an answer with
\* that text), the transcript before a step is a prefix of the transcript
\* after it; closing the panel discards the transcript, and the panel
\* reopens with the greeting alone.
C12_AppendOnlyWhileOpen ==
  [][/\ (ChatMounted /\ ChatMounted')
          => IsPrefix(WithoutThinkingTexts(messages),
                      WithoutThinkingTexts(messages'))
     /\ ~ChatMounted' => messages' = InitialMessages]_vars

\* two questions have been asked and answered in the open panel
C12_Witness ==
  /\ ChatMounted
  /\ chatPc = "idle"
  /\ Len(messages) = 5
  /\ messages[2].role = "user"
  /\ messages[3].role = "assistant"
  /\ messages[4].role = "user"
  /\ messages[5] = Message("assistant", Word("answer"))

\* the last message of the transcript
LastMessage(msgs) == msgs[Len(msgs)]

\* the transcript ends with an assistant turn whose content holds text w
EndsWithAssistant(msgs, w) ==
  /\ msgs # << >>
  /\ LastMessage(msgs).role = "assistant"
  /\ Includes(LastMessage(msgs).content, w)

\* C25: every accepted chat submit appends the user turn and then a thinking
\* turn and issues its request; the request ends with no thinking turn left
\* and one assistant turn appended, which on a failure carries the message
\* of the category of the failure: a rejected fetch the network message,
\* status 401 the authentication message, status 429 the rate-limit
\* message.
C25_SubmitEndsWithMatchingTurn ==
  /\ [][(ChatHandleSubmit /\ apiKey)
          => /\ messages' = messages \o << Message("user", Trim(input)),
                                           Message("assistant", Thinking) >>
             /\ chatPc' = "fetching"]_vars
  /\ [][(ChatFetchSettles /\ chatPc' = "idle")
          => EndsWithAssistant(messages', "Network error.")]_vars
  /\ [][ChatReadBody
          => /\ \A i \in 1..Len(messages') :
                  messages'[i] # Message("assistant", Thinking)
             /\ Len(messages') = Len(messages) + 1
             /\ LastMessage(messages').role = "assistant"
             /\ response.status = "401"
                  => EndsWithAssistant(messages', "Authentication error.")
             /\ response.status = "429"
                  => EndsWithAssistant(messages', RateLimitText)]_vars

\* the requests of handleSubmit calls that have not settled: the one of the
\* mounted ChatBot and those of ChatBots unmounted since
InFlight == orphans + (IF chatPc = "idle" THEN 0 ELSE 1)

\* the thinking turns of the assistant in the transcript
ThinkingTurns(msgs) ==
  Len(SelectSeq(msgs, LAMBDA m : m = Message("assistant", Thinking)))

\* a step in which handleSubmit has issued a request: the transcript has
\* grown and the chat is processing
RequestIssued == Len(messages') > Len(messages) /\ isProcessing'

\* C28, as stated: at most one chat request is in flight at any time and the
\* transcript never holds more than one thinking turn.
C28_OneRequestInFlight ==
  /\ InFlight <= 1
  /\ ThinkingTurns(messages) <= 1

\* C28: the open chat panel has at most one request in flight, and its
\* thinking turn is the last message while the request is awaited; a
\* request is issued only by a submit with a question that is not blank,
\* while no request of the panel is processing and with the API key set;
\* a submit without API key leaves the transcript and the processing flag
\* as they were.  Requests of panels closed meanwhile may still be in
\* flight.
C28_OneRequestPerPanel ==
  /\ [](isProcessing <=> chatPc # "idle")
  /\ [](chatPc = "fetching"
          => LastMessage(messages) = Message("assistant", Thinking))
  /\ [][RequestIssued
          => /\ ChatHandleSubmit
             /\ ~isProcessing
             /\ chatPc = "idle"
             /\ Trim(input) # EmptyStr
             /\ apiKey
             /\ orphans' = orphans]_vars
  /\ [][(ChatHandleSubmit /\ ~apiKey)
          => /\ messages' = messages
             /\ isProcessing' = isProcessing
             /\ chatPc' = chatPc
             /\ orphans' = orphans]_vars

\* a question was asked in a panel reopened while the request of the panel
\* closed before is still in flight
C28_Witness ==
  /\ ChatMounted
  /\ orphans = 1
  /\ chatPc = "fetching"
  /\ isProcessing
  /\ Len(messages) = 3
  /\ messages[3] = Message("assistant", Thinking)

(***************************************************************************)
(* SpecVirtual: a document is loaded, split and scrolled through.          *)
(***************************************************************************)
InitVirtual ==
  /\ \E f \in VirtualFiles : InitViewer(f)
  /\ InitControls
  /\ InitNavigator
  /\ InitOcr
  /\ InitCache(EmptyStorage)
  /\ InitChat(TRUE)
  /\ InitNotes
  /\ \E height \in ViewportHeights : InitVirtualizer(height)

NextVirtual ==
  \/ OnDocumentLoadSuccess
  \/ ToggleSplitControls
  \/ TypeRangeAndApply
  \/ Scroll
  \/ Resize
  \/ VirtualizerOnChange

SpecVirtual == InitVirtual /\ [][NextVirtual]_vars

\* the pages at the indexes of the visible window widened by a margin on
\* each side, inside the active page sequence
WindowWithMargin(margin) ==
  IF count = 0 THEN {}
  ELSE {pages[i + 1] :
          i \in Max(StartIndex - margin, 0)..Min(EndIndex + margin, count - 1)}

\* C19: after the onChange of the virtualizer the current page is the page
\* at the first position of the window that intersects the container, not
\* a page of the overscan above it.
C19_CurrentPageIsFirstVisible ==
  [][(VirtualizerOnChange /\ VisibleIndexes # {})
       => currentPage' = pages[StartIndex + 1]]_vars

C22_SplitResetsScrollAndLoaded ==
  [][(TypeRangeAndApply /\ SplitAccepted(startPage', endPage'))
       => /\ scrollOffset' = 0
          /\ loadedPages' = {}]_vars

(***************************************************************************)
(* SpecNotes: notes are generated in a viewer whose one-page document has  *)
(* been split and extracted.                                               *)
(***************************************************************************)
InitNotesSpec ==
  /\ InitChatSpec
  /\ apiKey

NextNotes ==
  \/ GenerateNotesFromText
  \/ NotesSettle

SpecNotes == InitNotesSpec /\ [][NextNotes]_vars

InitSession ==
  /\ file = [name |-> "a", size |-> 1, pages |-> << JoinedPage, JoinedPage >>]
  /\ numPages = 2
  /\ isLoading = FALSE
  /\ currentPage = 1
  /\ scale = ScaleForWidth(MediumBreakpoint)
  /\ splitPdfPages = << 1 >>
  /\ isSplit = TRUE
  /\ ocrText = AppendPage(EmptyStr, 1, JoinWithSpace(JoinedPage.items))
  /\ showChat = TRUE
  /\ isProcessingOCR = FALSE
  /\ lastScroll = NoScroll
  /\ lastToast = "OCR completed"
  /\ InitControls
  /\ InitNavigator
  /\ InitOcr
  /\ InitCache(EmptyStorage)
  /\ messages = InitialMessages
  /\ input = Concat(Spaces(1), Letters(2))
  /\ isProcessing = FALSE
  /\ apiKey = TRUE
  /\ chatPc = "idle"
  /\ response = NoResponse
  /\ orphans = 0
  /\ InitNotes
  /\ InitVirtualizer(TallViewport)

NextSession ==
  \/ ChatHandleSubmit
  \/ ChatFetchSettles
  \/ ChatReadBody
  \/ ToggleChat
  \/ OrphanSettles
  \/ ToggleSplitControls
  \/ TypeRangeAndApply
  \/ HandlePerformOCR
  \/ OcrGetDocument
  \/ OcrGetTextContent
  \/ OcrReturn
  \/ OcrThrow

SpecSession == InitSession /\ [][NextSession]_vars

\* C21: a successful split makes the start of the range the current page and
\* leaves ocrText, showChat and the transcript as they were; ocrText changes
\* only when an extract run returns.
C21_SplitKeepsTextAndChat ==
  /\ [][(TypeRangeAndApply /\ SplitAccepted(startPage', endPage'))
         => /\ currentPage' = startPage'
            /\ ocrText' = ocrText
            /\ showChat' = showChat
            /\ messages' = messages]_vars
  /\ [][ocrText' # ocrText => OcrReturn]_vars

\* the document has been split to its second page after an answer was
\* given in the chat panel: the text is still that of the first page, the
\* panel is open and the transcript holds the question and the answer
C21_Witness ==
  /\ lastToast = "PDF split"
  /\ splitPdfPages = << 2 >>
  /\ currentPage = 2
  /\ ocrText = AppendPage(EmptyStr, 1, JoinWithSpace(JoinedPage.items))
  /\ showChat
  /\ Len(messages) = 3
  /\ messages[2].role = "user"
  /\ messages[3].role = "assistant"
  /\ chatPc = "idle"

(***************************************************************************)
(* SpecBusy: the one page of a document, short of embedded text and with a *)
(* scan, has been extracted and a question has been typed; questions are   *)
(* asked and the page is extracted again.  SpecBusyLive adds that the      *)
(* awaited calls settle: fetch and the reading of the body of a chat       *)
(* request, and the awaits of a running extraction.                        *)
(***************************************************************************)
InitBusy ==
  /\ file = [name |-> "a", size |-> 1, pages |-> << ShortPage >>]
  /\ numPages = 1
  /\ isLoading = FALSE
  /\ currentPage = 1
  /\ scale = ScaleForWidth(MediumBreakpoint)
  /\ splitPdfPages = << 1 >>
  /\ isSplit = TRUE
  /\ ocrText =
       AppendPage(EmptyStr, 1,
                  Concat(Concat(JoinWithSpace(ShortPage.items), Spaces(1)),
                         ShortPage.scan))
  /\ showChat = TRUE
  /\ isProcessingOCR = FALSE
  /\ lastScroll = NoScroll
  /\ lastToast = "OCR completed"
  /\ InitControls
  /\ InitNavigator
  /\ InitOcr
  /\ InitCache(EmptyStorage)
  /\ messages = InitialMessages
  /\ input = Concat(Spaces(1), Letters(2))
  /\ isProcessing = FALSE
  /\ apiKey = TRUE
  /\ chatPc = "idle"
  /\ response = NoResponse
  /\ orphans = 0
  /\ InitNotes
  /\ InitVirtualizer(TallViewport)

NextBusy ==
  \/ ChatHandleSubmit
  \/ ChatFetchSettles
  \/ ChatReadBody
  \/ ToggleChat
  \/ OrphanSettles
  \/ HandlePerformOCR
  \/ OcrGetDocument
  \/ OcrGetTextContent
  \/ OcrExtractImages
  \/ OcrRecognize
  \/ OcrReturn
  \/ OcrThrow

SpecBusy == InitBusy /\ [][NextBusy]_vars

SpecBusyLive ==
  /\ SpecBusy
  /\ WF_vars(ChatFetchSettles \/ ChatReadBody)
  /\ WF_vars(OcrGetDocument \/ OcrGetTextContent \/ OcrExtractImages
               \/ OcrRecognize \/ OcrReturn \/ OcrThrow)

\* C30: every started asynchronous action releases its busy flag when its
\* awaited calls settle: isProcessing set by a chat submit leads to
\* isProcessing false, and isProcessingOCR set by an extract run leads to
\* isProcessingOCR false, on success and on every failure.
C30_BusyFlagsReleased ==
  /\ isProcessing ~> ~isProcessing
  /\ isProcessingOCR ~> ~isProcessingOCR

\* a question ended with a rejected fetch and an extract run ended with a
\* failure, and both flags are released
C30_Witness ==
  /\ ~isProcessing
  /\ ~isProcessingOCR
  /\ ocrPc = "idle"
  /\ chatPc = "idle"
  /\ lastToast = "Failed to extract text from PDF. Please try again."
  /\ Len(messages) = 3
  /\ messages[3] = Message("assistant", ErrorContent(Word("Failed to fetch")))

(***************************************************************************)
(* SpecPage: a document is loaded, split, jumped through and scrolled      *)
(* through in a container ShortViewport tall.                              *)
(***************************************************************************)
InitPage ==
  /\ \E f \in TextFiles : InitViewer(f)
  /\ scale = ScaleForWidth(MediumBreakpoint)
  /\ InitControls
  /\ InitNavigator
  /\ InitOcr
  /\ InitCache(EmptyStorage)
  /\ InitChat(TRUE)
  /\ InitNotes
  /\ InitVirtualizer(ShortViewport)

NextPage ==
  \/ OnDocumentLoadSuccess
  \/ ToggleSplitControls
  \/ TypeRangeAndApply
  \/ SetIsDialogOpen
  \/ SetJumpToPage
  \/ NavigatorHandleJumpToPage
  \/ Scroll
  \/ VirtualizerOnChange

SpecPage == InitPage /\ [][NextPage]_vars

\* C29: once the document has loaded, currentPage is a page of the active
\* page sequence, after every split, jump and onChange of the virtualizer.
C29_CurrentPageIsActive ==
  (~isLoading /\ numPages > 0) => currentPage \in PageSet(pages)

\* the second page was split off, the virtualizer has recomputed, and a jump
\* to the first page of the split was taken
C29_Witness ==
  /\ ~isLoading
  /\ isSplit
  /\ splitPdfPages = << 2 >>
  /\ loadedPages = {2}
  /\ lastToast = "Jumped to page"
  /\ lastScroll = [top |-> PageHeightPx * scale]
  /\ currentPage = 2

====
